---- MODULE Spec2Model ----
(***************************************************************************)
(* Model of the PBS data-store facade (Postgres implementation: dispatch   *)
(* table, query cursor, pbs_db_search, connection management, statement    *)
(* execution), of the schema migration controller (svr_migrate_data.c) and *)
(* of the signal-job request service (req_signaljob.c).                    *)
(***************************************************************************)
EXTENDS Integers, Sequences, FiniteSets, Bags, TLC

\* ------------------------------------------------------------------ bounds
MaxRows == 3
MaxNodes == 2
MaxDiag == 2
MaxConnects == 2
MaxDigits == 2
MaxSecret == 3
MaxPath == 2
MaxQuotes == 30
MaxJobs == 2
MaxRequests == 3
MaxArrayRequests == 1

\* ------------------------------------------------------------- variables
VARIABLES
    \* --- pbs_db_search and its cursor
    spc,          \* position inside pbs_db_search
    objType,      \* obj->pbs_db_obj_type
    st,           \* the db_query_state_t contents (count, res, row)
    stPtr,        \* the local pointer st of pbs_db_search: "NULL" or "ST"
    heap,         \* allocation status of the state and of the PGresult
    ntuples,      \* PQntuples of the result the find query produced
    ret,          \* local ret (result of the kind's find)
    rc,           \* local rc (result of the last db_cursor_next)
    totcount,     \* local totcount
    retval,       \* value returned by pbs_db_search
    errmsg_cache, \* the process wide cached error message
    findLog,      \* results of the find calls made in this search
    fetchLog,     \* row-fetch (pbs_db_next_obj) calls: row index and result
    nextLog,      \* results of the db_cursor_next calls of this search
    cbLog,        \* query_cb calls: row index and the refreshed flag
    \* --- svr_migrate_data
    mpc,          \* position inside svr_migrate_data
    db_maj_ver,
    db_min_ver,
    svr_totnodes,
    nd_modified,  \* pbsndlist[i]->nd_modified, i in 0..MaxNodes-1
    mi,           \* loop variable i
    mret,         \* value returned by svr_migrate_data
    mlog,         \* messages handed to log_err by svr_migrate_data
    mtrace,       \* collaborator calls and node markings, in order
    ndAtEntry,    \* nd_modified and svr_totnodes when the call started
    \* --- pbs_db_connect / pbs_db_disconnect
    conn_data,    \* the global conn_data: 0 (NULL) or a buffer id
    conn_trx,     \* the global conn_trx: 0 (NULL) or a buffer id
    bufs,         \* every buffer malloc/calloc returned: state and free count
    sessions,     \* every PGconn PQconnectdb returned
    handles,      \* the callers' connection handle variables (*db_conn)
    stopReqs,     \* number of pbs_stop_db calls made so far
    nConnects,    \* number of pbs_db_connect calls made so far
    lastConn,     \* what the last connect/disconnect call did
    \* --- statement execution
    stmtCall,     \* the last statement-level call: inputs, result, PGresult
    \* --- credentials and the connection descriptor
    pwdCall,      \* the last get_dataservice_password call: inputs and result
    escCall,      \* the last escape_passwd call: inputs and what it wrote
    csCall,       \* the last get_db_connect_string call: inputs and result
    \* --- generic entry points of the dispatch table
    dispCall,     \* the last pbs_db_save_obj/delete_obj/load_obj call
    \* --- req_signaljob and the replies of MOM
    ajob,         \* state of the array parent, "none" when the jobs are regular
    jobs,         \* the jobs (or subjobs): state, substate, flags, resources
    pbsnodes,     \* the vnodes: jobs in maintenance attribute, maintenance state
    atMom,        \* the signal requests relayed to MOM and not yet answered
    brs,          \* the array and range requests: reference count, replies
    nReqs,        \* number of req_signaljob calls made so far
    lastSig       \* what the last req_signaljob or post_signal_req did

searchVars == <<spc, objType, st, stPtr, heap, ntuples, ret, rc, totcount,
                retval, errmsg_cache, findLog, fetchLog, nextLog, cbLog>>
migrateVars == <<mpc, db_maj_ver, db_min_ver, svr_totnodes, nd_modified, mi,
                 mret, mlog, mtrace, ndAtEntry>>
searchRest == <<spc, objType, st, stPtr, heap, ntuples, ret, rc, totcount,
                retval, findLog, fetchLog, nextLog, cbLog>>
connVars == <<conn_data, conn_trx, bufs, sessions, handles, stopReqs, nConnects,
              lastConn>>
stmtVars == <<stmtCall>>
authVars == <<pwdCall, escCall, csCall>>
dispVars == <<dispCall>>
sigVars == <<ajob, jobs, pbsnodes, atMom, brs, nReqs, lastSig>>
vars == <<searchVars, migrateVars, connVars, stmtVars, authVars, dispVars, sigVars>>

\* ---------------------------------------------------------- dispatch table
ObjTypes == {"PBS_DB_SVR", "PBS_DB_SCHED", "PBS_DB_QUE", "PBS_DB_NODE",
             "PBS_DB_MOMINFO_TIME", "PBS_DB_JOB", "PBS_DB_JOBSCR", "PBS_DB_RESV"}

FnRow(save, del, load, find, next, delattr) ==
    [pbs_db_save_obj |-> save, pbs_db_delete_obj |-> del, pbs_db_load_obj |-> load,
     pbs_db_find_obj |-> find, pbs_db_next_obj |-> next, pbs_db_del_attr_obj |-> delattr]

db_fn_arr ==
    [k \in ObjTypes |->
        CASE k = "PBS_DB_SVR" ->
               FnRow("pbs_db_save_svr", "NULL", "pbs_db_load_svr", "NULL", "NULL",
                     "pbs_db_del_attr_svr")
          [] k = "PBS_DB_SCHED" ->
               FnRow("pbs_db_save_sched", "pbs_db_delete_sched", "pbs_db_load_sched",
                     "pbs_db_find_sched", "pbs_db_next_sched", "pbs_db_del_attr_sched")
          [] k = "PBS_DB_QUE" ->
               FnRow("pbs_db_save_que", "pbs_db_delete_que", "pbs_db_load_que",
                     "pbs_db_find_que", "pbs_db_next_que", "pbs_db_del_attr_que")
          [] k = "PBS_DB_NODE" ->
               FnRow("pbs_db_save_node", "pbs_db_delete_node", "pbs_db_load_node",
                     "pbs_db_find_node", "pbs_db_next_node", "pbs_db_del_attr_node")
          [] k = "PBS_DB_MOMINFO_TIME" ->
               FnRow("pbs_db_save_mominfo_tm", "NULL", "pbs_db_load_mominfo_tm", "NULL",
                     "NULL", "NULL")
          [] k = "PBS_DB_JOB" ->
               FnRow("pbs_db_save_job", "pbs_db_delete_job", "pbs_db_load_job",
                     "pbs_db_find_job", "pbs_db_next_job", "pbs_db_del_attr_job")
          [] k = "PBS_DB_JOBSCR" ->
               FnRow("pbs_db_save_jobscr", "NULL", "pbs_db_load_jobscr", "NULL", "NULL",
                     "NULL")
          [] k = "PBS_DB_RESV" ->
               FnRow("pbs_db_save_resv", "pbs_db_delete_resv", "pbs_db_load_resv",
                     "pbs_db_find_resv", "pbs_db_next_resv", "pbs_db_del_attr_resv")]

\* --------------------------------------------------------- heap operations
NoHeap == [st |-> "none", res |-> "none", frees |-> 0, clears |-> 0, stale |-> 0]
NoState == [count |-> 0, res |-> "NULL", row |-> 0]

PQclear(h) == [h EXCEPT !.res = "cleared", !.clears = @ + 1]
\* a read of the PGresult or of a field inside it (PQresultStatus,
\* PQresultErrorField, PQcmdTuples and its string, PQntuples); stale counts
\* the reads made after the result was cleared
PQuse(h) == [h EXCEPT !.stale = IF h.res = "live" THEN @ ELSE @ + 1]
free(h) == [h EXCEPT !.st = "freed", !.frees = @ + 1]

\* the state a successful db_initialize_state returns
db_initialize_state == [count |-> -1, res |-> "NULL", row |-> -1]

db_destroy_state_noclear(ptr, state, h) ==
    IF ptr # "NULL" THEN free(h) ELSE h

db_destroy_state(ptr, state, h) ==
    IF ptr # "NULL"
    THEN free(IF state.res # "NULL" THEN PQclear(h) ELSE h)
    ELSE h

\* C strings: a null pointer or a sequence of characters (a word or a phrase
\* counts as one character where its spelling does not matter)
NullStr == [null |-> TRUE, s |-> <<>>]
CStr(s) == [null |-> FALSE, s |-> s]

\* the loop of db_set_error that cuts the trailing '\r' and '\n' off str
RECURSIVE TrimNewlines(_)
TrimNewlines(s) ==
    IF Len(s) > 0 /\ s[Len(s)] \in {"\r", "\n"}
    THEN TrimNewlines(SubSeq(s, 1, Len(s) - 1))
    ELSE s

db_set_error_notrim(fnc, msg, str, diag_msg) ==
    IF str.null
    THEN NullStr
    ELSE CStr(<<fnc>> \o msg.s \o <<"failed:">> \o str.s
              \o (IF diag_msg.null THEN <<>> ELSE diag_msg.s))

\* db_set_error: the new value of the cached error; the old one is freed.
\* str is what PQerrorMessage returns, the text is "fnc msg failed: str diag"
db_set_error(fnc, msg, str, diag_msg) ==
    IF str.null
    THEN NullStr
    ELSE CStr(<<fnc>> \o msg.s \o <<"failed:">> \o TrimNewlines(str.s)
              \o (IF diag_msg.null THEN <<>> ELSE diag_msg.s))

\* what the backend reports for a failed statement: PQerrorMessage, which
\* is a text (possibly empty) and never a null pointer, and the SQLSTATE
\* field of the result, which may be missing
PQReport(msg, sqlstate) == [msg |-> msg, sqlstate |-> sqlstate]
NoReport == PQReport(CStr(<<>>), NullStr)
Reports ==
    {PQReport(m, d) :
        m \in {CStr(<<>>), CStr(<<"ERROR">>),
               CStr(<<"ERROR", "\n", "DETAIL", "\r", "\n">>)},
        d \in {NullStr, CStr(<<"42P01">>)}}

\* db_query on a backend answer (status, n rows): return code, heap, cache
db_query_neg(stmt, status, n, pq, h, cache) ==
    LET h1 == PQuse([h EXCEPT !.res = "live"])
    IN  IF status # "PGRES_TUPLES_OK"
        THEN [rc |-> -1, heap |-> PQclear(PQuse(h1)),
              cache |-> db_set_error("Execution of Prepared statement", stmt,
                                     pq.msg, pq.sqlstate)]
        ELSE IF n < 0
             THEN [rc |-> 1, heap |-> PQclear(PQuse(h1)), cache |-> cache]
             ELSE [rc |-> 0, heap |-> PQuse(h1), cache |-> cache]

db_query(stmt, status, n, pq, h, cache) ==
    LET h1 == PQuse([h EXCEPT !.res = "live"])
    IN  IF status # "PGRES_TUPLES_OK"
        THEN [rc |-> -1, heap |-> PQclear(PQuse(h1)),
              cache |-> db_set_error("Execution of Prepared statement", stmt,
                                     pq.msg, pq.sqlstate)]
        ELSE IF n <= 0
             THEN [rc |-> 1, heap |-> PQclear(PQuse(h1)), cache |-> cache]
             ELSE [rc |-> 0, heap |-> PQuse(h1), cache |-> cache]

\* the find operation of an entity module: runs its query through db_query
\* and, when rows came back, positions the cursor on the first row
pbs_db_find_obj(state, q, n) ==
    IF q.rc # 0
    THEN [ret |-> q.rc, state |-> state]
    ELSE [ret |-> 0, state |-> [count |-> n, res |-> "RES", row |-> 0]]

db_cursor_next_le(state, fetch) ==
    IF state.row <= state.count
    THEN [ret |-> fetch, state |-> [state EXCEPT !.row = @ + 1], called |-> TRUE]
    ELSE [ret |-> 1, state |-> state, called |-> FALSE]

db_cursor_next_adv(state, fetch) ==
    IF state.row < state.count
    THEN [ret |-> fetch, state |-> [state EXCEPT !.row = @ + 1], called |-> TRUE]
    ELSE [ret |-> 1, state |-> [state EXCEPT !.row = @ + 1], called |-> FALSE]

db_cursor_next_stay(state, fetch) ==
    IF state.row < state.count
    THEN [ret |-> fetch,
          state |-> IF fetch = 0 THEN [state EXCEPT !.row = @ + 1] ELSE state,
          called |-> TRUE]
    ELSE [ret |-> 1, state |-> state, called |-> FALSE]

\* db_cursor_next; fetch is what the kind's row-fetch returns if it is called
db_cursor_next(state, fetch) ==
    IF state.row < state.count
    THEN [ret |-> fetch, state |-> [state EXCEPT !.row = @ + 1], called |-> TRUE]
    ELSE [ret |-> 1, state |-> state, called |-> FALSE]

\* ------------------------------------------------------- pbs_db_search
SearchInit ==
    /\ spc = "idle"
    /\ objType = "PBS_DB_SVR"
    /\ st = NoState
    /\ stPtr = "NULL"
    /\ heap = NoHeap
    /\ ntuples = 0
    /\ ret = 0
    /\ rc = 0
    /\ totcount = 0
    /\ retval = 0
    /\ errmsg_cache = NullStr
    /\ findLog = <<>>
    /\ fetchLog = <<>>
    /\ nextLog = <<>>
    /\ cbLog = <<>>

\* entry of pbs_db_search up to the check of db_initialize_state's result
SearchCall ==
    /\ spc = "idle"
    /\ \E k \in ObjTypes, mallocOk \in BOOLEAN :
          /\ objType' = k
          /\ IF mallocOk
             THEN /\ stPtr' = "ST"
                  /\ st' = db_initialize_state
                  /\ heap' = [NoHeap EXCEPT !.st = "live"]
                  /\ spc' = "find"
                  /\ retval' = 0
             ELSE /\ stPtr' = "NULL"
                  /\ st' = NoState
                  /\ heap' = NoHeap
                  /\ spc' = "done"
                  /\ retval' = -1
    /\ ntuples' = 0
    /\ ret' = 0
    /\ rc' = 0
    /\ totcount' = 0
    /\ findLog' = <<>>
    /\ fetchLog' = <<>>
    /\ nextLog' = <<>>
    /\ cbLog' = <<>>
    /\ UNCHANGED errmsg_cache
    /\ UNCHANGED <<migrateVars, connVars, stmtVars,
                   authVars, dispVars, sigVars>>

\* the call through db_fn_arr[type].pbs_db_find_obj
SearchFind ==
    /\ spc = "find"
    /\ IF db_fn_arr[objType].pbs_db_find_obj = "NULL"
       THEN /\ spc' = "crash"
            /\ UNCHANGED <<st, heap, ntuples, ret, errmsg_cache, findLog>>
       ELSE \E status \in {"PGRES_TUPLES_OK", "PGRES_FATAL_ERROR"}, n \in 0..MaxRows,
               pq \in Reports :
              LET q == db_query(CStr(<<db_fn_arr[objType].pbs_db_find_obj>>), status,
                                n, pq, heap, errmsg_cache)
                  f == pbs_db_find_obj(st, q, n)
              IN  /\ st' = f.state
                  /\ ret' = f.ret
                  /\ heap' = q.heap
                  /\ errmsg_cache' = q.cache
                  /\ ntuples' = IF status = "PGRES_TUPLES_OK" THEN n ELSE 0
                  /\ findLog' = Append(findLog, f.ret)
                  /\ spc' = "check"
    /\ UNCHANGED <<objType, stPtr, rc, totcount, retval, fetchLog, nextLog, cbLog>>
    /\ UNCHANGED <<migrateVars, connVars, stmtVars,
                   authVars, dispVars, sigVars>>

SearchCheck_ne0 ==
    /\ spc = "check"
    /\ IF ret # 0
       THEN /\ heap' = db_destroy_state(stPtr, st, heap)
            /\ retval' = -1
            /\ spc' = "done"
            /\ UNCHANGED totcount
       ELSE /\ totcount' = 0
            /\ spc' = "loop"
            /\ UNCHANGED <<heap, retval>>
    /\ UNCHANGED <<objType, st, stPtr, ntuples, ret, rc, errmsg_cache,
                   findLog, fetchLog, nextLog, cbLog>>
    /\ UNCHANGED <<migrateVars, connVars, stmtVars,
                   authVars, dispVars, sigVars>>

\* if (ret == -1) { db_destroy_state(st); return -1; }  totcount = 0;
SearchCheck ==
    /\ spc = "check"
    /\ IF ret = -1
       THEN /\ heap' = db_destroy_state(stPtr, st, heap)
            /\ retval' = -1
            /\ spc' = "done"
            /\ UNCHANGED totcount
       ELSE /\ totcount' = 0
            /\ spc' = "loop"
            /\ UNCHANGED <<heap, retval>>
    /\ UNCHANGED <<objType, st, stPtr, ntuples, ret, rc, errmsg_cache,
                   findLog, fetchLog, nextLog, cbLog>>
    /\ UNCHANGED <<migrateVars, connVars, stmtVars,
                   authVars, dispVars, sigVars>>

\* the loop condition: (rc = db_cursor_next(conn, st, obj)) == 0
SearchNext ==
    /\ spc = "loop"
    /\ \E fetch \in {0, -1} :
          LET r == db_cursor_next(st, fetch)
          IN  /\ st' = r.state
              /\ rc' = r.ret
              /\ nextLog' = Append(nextLog, r.ret)
              /\ fetchLog' = IF r.called
                             THEN Append(fetchLog, [row |-> st.row, ret |-> fetch])
                             ELSE fetchLog
              /\ spc' = IF r.ret = 0 THEN "cb" ELSE "exit"
    /\ UNCHANGED <<objType, stPtr, heap, ntuples, ret, totcount, retval,
                   errmsg_cache, findLog, cbLog>>
    /\ UNCHANGED <<migrateVars, connVars, stmtVars,
                   authVars, dispVars, sigVars>>

SearchCallback_all ==
    /\ spc = "cb"
    /\ \E refreshed \in {0, 1} :
          /\ cbLog' = Append(cbLog, [row |-> st.row - 1, refreshed |-> refreshed])
          /\ totcount' = totcount + 1
    /\ spc' = "loop"
    /\ UNCHANGED <<objType, st, stPtr, heap, ntuples, ret, rc, retval,
                   errmsg_cache, findLog, fetchLog, nextLog>>
    /\ UNCHANGED <<migrateVars, connVars, stmtVars,
                   authVars, dispVars, sigVars>>

\* the loop body: query_cb(obj, &refreshed); if (refreshed) totcount++;
SearchCallback ==
    /\ spc = "cb"
    /\ \E refreshed \in {0, 1} :
          /\ cbLog' = Append(cbLog, [row |-> st.row - 1, refreshed |-> refreshed])
          /\ totcount' = IF refreshed # 0 THEN totcount + 1 ELSE totcount
    /\ spc' = "loop"
    /\ UNCHANGED <<objType, st, stPtr, heap, ntuples, ret, rc, retval,
                   errmsg_cache, findLog, fetchLog, nextLog>>
    /\ UNCHANGED <<migrateVars, connVars, stmtVars,
                   authVars, dispVars, sigVars>>

SearchExit_fail ==
    /\ spc = "exit"
    /\ heap' = db_destroy_state(stPtr, st, heap)
    /\ retval' = IF rc = -1 THEN -1 ELSE totcount
    /\ spc' = "done"
    /\ UNCHANGED <<objType, st, stPtr, ntuples, ret, rc, totcount,
                   errmsg_cache, findLog, fetchLog, nextLog, cbLog>>
    /\ UNCHANGED <<migrateVars, connVars, stmtVars,
                   authVars, dispVars, sigVars>>

\* after the loop: db_destroy_state(st); return totcount;
SearchExit ==
    /\ spc = "exit"
    /\ heap' = db_destroy_state(stPtr, st, heap)
    /\ retval' = totcount
    /\ spc' = "done"
    /\ UNCHANGED <<objType, st, stPtr, ntuples, ret, rc, totcount,
                   errmsg_cache, findLog, fetchLog, nextLog, cbLog>>
    /\ UNCHANGED <<migrateVars, connVars, stmtVars,
                   authVars, dispVars, sigVars>>

\* the caller takes the result; the next search starts from scratch
SearchReturn ==
    /\ spc \in {"done", "crash"}
    /\ spc' = "idle"
    /\ UNCHANGED <<objType, st, stPtr, heap, ntuples, ret, rc, totcount, retval,
                   errmsg_cache, findLog, fetchLog, nextLog, cbLog>>
    /\ UNCHANGED <<migrateVars, connVars, stmtVars,
                   authVars, dispVars, sigVars>>

\* ------------------------------------------------------- svr_migrate_data
Majors == {1, 2, 3}
Minors == {0, 1, 7}
NodeFlags == {"NODE_UPDATE_STATE", "NODE_UPDATE_OTHERS"}
NodeIdx == 0..(MaxNodes - 1)

Ev(op, arg) == [op |-> op, arg |-> arg]
\* one log_err call: the text and the values formatted into it
LogEntry(text, args) == [text |-> text, args |-> args]

MigrateInit ==
    /\ mpc = "idle"
    /\ db_maj_ver = 0
    /\ db_min_ver = 0
    /\ svr_totnodes \in 0..MaxNodes
    /\ nd_modified \in [NodeIdx -> {{}, {"NODE_UPDATE_STATE"}}]
    /\ \A j \in NodeIdx : j >= svr_totnodes => nd_modified[j] = {}
    /\ mi = 0
    /\ mret = 0
    /\ mlog = <<>>
    /\ mtrace = <<>>
    /\ ndAtEntry = [tot |-> svr_totnodes, nd |-> nd_modified]

MigrateIdle ==
    /\ mpc = "idle"
    /\ db_maj_ver = 0
    /\ db_min_ver = 0
    /\ svr_totnodes = 0
    /\ nd_modified = [j \in NodeIdx |-> {}]
    /\ mi = 0
    /\ mret = 0
    /\ mlog = <<>>
    /\ mtrace = <<>>
    /\ ndAtEntry = [tot |-> 0, nd |-> [j \in NodeIdx |-> {}]]

SearchIdle ==
    SearchInit

MigrateCall_fallthrough ==
    /\ mpc = "idle"
    /\ mi' = 0
    /\ ndAtEntry' = [tot |-> svr_totnodes, nd |-> nd_modified]
    /\ \E ok \in BOOLEAN, maj \in Majors, min \in Minors, conn_db_err \in BOOLEAN :
          /\ db_maj_ver' = maj
          /\ db_min_ver' = min
          /\ IF ok
             THEN /\ mtrace' = <<Ev("pbs_db_get_schema_version", 0)>>
                  /\ mlog' = <<>>
                  /\ mret' = 0
                  /\ mpc' = "version"
             ELSE /\ mtrace' = <<Ev("pbs_db_get_schema_version", -1)>>
                  /\ mlog' = IF conn_db_err
                             THEN <<LogEntry("Failed to get PBS datastore version", <<>>),
                                    LogEntry("conn_db_err", <<>>)>>
                             ELSE <<LogEntry("Failed to get PBS datastore version", <<>>)>>
                  /\ mret' = -1
                  /\ mpc' = "version"
    /\ UNCHANGED <<svr_totnodes, nd_modified>>
    /\ UNCHANGED <<searchVars, connVars, stmtVars,
                   authVars, dispVars, sigVars>>

\* pbs_db_get_schema_version and the failure branch that follows it; on
\* failure the two locals keep whatever the stack held
MigrateCall ==
    /\ mpc = "idle"
    /\ mi' = 0
    /\ ndAtEntry' = [tot |-> svr_totnodes, nd |-> nd_modified]
    /\ \E ok \in BOOLEAN, maj \in Majors, min \in Minors, conn_db_err \in BOOLEAN :
          /\ db_maj_ver' = maj
          /\ db_min_ver' = min
          /\ IF ok
             THEN /\ mtrace' = <<Ev("pbs_db_get_schema_version", 0)>>
                  /\ mlog' = <<>>
                  /\ mret' = 0
                  /\ mpc' = "version"
             ELSE /\ mtrace' = <<Ev("pbs_db_get_schema_version", -1)>>
                  /\ mlog' = IF conn_db_err
                             THEN <<LogEntry("Failed to get PBS datastore version", <<>>),
                                    LogEntry("conn_db_err", <<>>)>>
                             ELSE <<LogEntry("Failed to get PBS datastore version", <<>>)>>
                  /\ mret' = -1
                  /\ mpc' = "done"
    /\ UNCHANGED <<svr_totnodes, nd_modified>>
    /\ UNCHANGED <<searchVars, connVars, stmtVars,
                   authVars, dispVars, sigVars>>

MigrateRecover_minor ==
    /\ mpc = "version"
    /\ db_min_ver = 0
    /\ \/ /\ mtrace' = Append(mtrace, Ev("pbsd_init", -1))
          /\ mret' = -1
          /\ mpc' = "done"
          /\ UNCHANGED <<svr_totnodes, nd_modified, mi, mlog>>
       \/ /\ mtrace' = Append(mtrace, Ev("pbsd_init", 0))
          /\ \E n \in 0..MaxNodes, nd \in [NodeIdx -> SUBSET NodeFlags] :
                /\ \A j \in NodeIdx : j >= n => nd[j] = {}
                /\ svr_totnodes' = n
                /\ nd_modified' = nd
          /\ mi' = 0
          /\ mpc' = "mark"
          /\ UNCHANGED <<mlog, mret>>
    /\ UNCHANGED <<db_maj_ver, db_min_ver, ndAtEntry>>
    /\ UNCHANGED <<searchVars, connVars, stmtVars,
                   authVars, dispVars, sigVars>>

\* version 1.0: if (pbsd_init(RECOV_WARM) != 0) return -1; the recovery
\* rebuilds the node list
MigrateRecover ==
    /\ mpc = "version"
    /\ db_maj_ver = 1 /\ db_min_ver = 0
    /\ \/ /\ mtrace' = Append(mtrace, Ev("pbsd_init", -1))
          /\ mret' = -1
          /\ mpc' = "done"
          /\ UNCHANGED <<svr_totnodes, nd_modified, mi, mlog>>
       \/ /\ mtrace' = Append(mtrace, Ev("pbsd_init", 0))
          /\ \E n \in 0..MaxNodes, nd \in [NodeIdx -> SUBSET NodeFlags] :
                /\ \A j \in NodeIdx : j >= n => nd[j] = {}
                /\ svr_totnodes' = n
                /\ nd_modified' = nd
          /\ mi' = 0
          /\ mpc' = "mark"
          /\ UNCHANGED <<mlog, mret>>
    /\ UNCHANGED <<db_maj_ver, db_min_ver, ndAtEntry>>
    /\ UNCHANGED <<searchVars, connVars, stmtVars,
                   authVars, dispVars, sigVars>>

MigrateMark_skip ==
    /\ mpc = "mark"
    /\ mi < svr_totnodes
    /\ nd_modified' = IF mi = 0 THEN nd_modified
                      ELSE [nd_modified EXCEPT ![mi] = {"NODE_UPDATE_OTHERS"}]
    /\ mtrace' = IF mi = 0 THEN mtrace ELSE Append(mtrace, Ev("mark", mi))
    /\ mi' = mi + 1
    /\ UNCHANGED <<mpc, db_maj_ver, db_min_ver, svr_totnodes, mret, mlog, ndAtEntry>>
    /\ UNCHANGED <<searchVars, connVars, stmtVars,
                   authVars, dispVars, sigVars>>

\* one iteration of: pbsndlist[i]->nd_modified = NODE_UPDATE_OTHERS
MigrateMark ==
    /\ mpc = "mark"
    /\ mi < svr_totnodes
    /\ nd_modified' = [nd_modified EXCEPT ![mi] = {"NODE_UPDATE_OTHERS"}]
    /\ mtrace' = Append(mtrace, Ev("mark", mi))
    /\ mi' = mi + 1
    /\ UNCHANGED <<mpc, db_maj_ver, db_min_ver, svr_totnodes, mret, mlog, ndAtEntry>>
    /\ UNCHANGED <<searchVars, connVars, stmtVars,
                   authVars, dispVars, sigVars>>

\* end of the loop: if (save_nodes_db(0, NULL) != 0) { log_err; return -1; }
\* return 0;
MigrateSave ==
    /\ mpc = "mark"
    /\ mi >= svr_totnodes
    /\ \/ /\ mtrace' = Append(mtrace, Ev("save_nodes_db", -1))
          /\ mlog' = Append(mlog, LogEntry("save_nodes_db failed!", <<>>))
          /\ mret' = -1
       \/ /\ mtrace' = Append(mtrace, Ev("save_nodes_db", 0))
          /\ mret' = 0
          /\ UNCHANGED mlog
    /\ mpc' = "done"
    /\ UNCHANGED <<db_maj_ver, db_min_ver, svr_totnodes, nd_modified, mi, ndAtEntry>>
    /\ UNCHANGED <<searchVars, connVars, stmtVars,
                   authVars, dispVars, sigVars>>

MigrateCurrent_major ==
    /\ mpc = "version"
    /\ ~(db_maj_ver = 1 /\ db_min_ver = 0)
    /\ db_maj_ver = 3
    /\ mret' = 0
    /\ mpc' = "done"
    /\ UNCHANGED <<db_maj_ver, db_min_ver, svr_totnodes, nd_modified, mi, mlog,
                   mtrace, ndAtEntry>>
    /\ UNCHANGED <<searchVars, connVars, stmtVars,
                   authVars, dispVars, sigVars>>

\* version 3.0: return 0
MigrateCurrent ==
    /\ mpc = "version"
    /\ ~(db_maj_ver = 1 /\ db_min_ver = 0)
    /\ db_maj_ver = 3 /\ db_min_ver = 0
    /\ mret' = 0
    /\ mpc' = "done"
    /\ UNCHANGED <<db_maj_ver, db_min_ver, svr_totnodes, nd_modified, mi, mlog,
                   mtrace, ndAtEntry>>
    /\ UNCHANGED <<searchVars, connVars, stmtVars,
                   authVars, dispVars, sigVars>>

\* any other version: log "Cannot upgrade from PBS datastore version M.m"
MigrateUnknown ==
    /\ mpc = "version"
    /\ ~(db_maj_ver = 1 /\ db_min_ver = 0)
    /\ ~(db_maj_ver = 3 /\ db_min_ver = 0)
    /\ mlog' = Append(mlog, LogEntry("Cannot upgrade from PBS datastore version %d.%d",
                                  <<db_maj_ver, db_min_ver>>))
    /\ mret' = -1
    /\ mpc' = "done"
    /\ UNCHANGED <<db_maj_ver, db_min_ver, svr_totnodes, nd_modified, mi,
                   mtrace, ndAtEntry>>
    /\ UNCHANGED <<searchVars, connVars, stmtVars,
                   authVars, dispVars, sigVars>>

\* the caller takes the result
MigrateReturn ==
    /\ mpc = "done"
    /\ mpc' = "idle"
    /\ UNCHANGED <<db_maj_ver, db_min_ver, svr_totnodes, nd_modified, mi, mret,
                   mlog, mtrace, ndAtEntry>>
    /\ UNCHANGED <<searchVars, connVars, stmtVars,
                   authVars, dispVars, sigVars>>

\* ------------------------------------------------------- connection
\* a diagnostic text is a sequence of words and phrases; strstr looks for a
\* phrase anywhere in it
Phrases == {"Connection refused", "No such file or directory", "authentication",
            "database system is starting up", "timeout expired"}
RECURSIVE Texts(_)
Texts(n) == IF n = 0 THEN {<<>>}
            ELSE Texts(n - 1) \cup {Append(t, w) : t \in Texts(n - 1), w \in Phrases}
Diags == Texts(MaxDiag)
strstr(text, phrase) == \E i \in 1..Len(text) : text[i] = phrase

\* the text db_set_error(conn, &errmsg_cache, fnc, "", "") leaves in the cache
\* when the backend's message is backendMsg
ErrorText(fnc, backendMsg) ==
    db_set_error(fnc, CStr(<<>>), CStr(backendMsg), CStr(<<>>)).s

is_conn_error_authfirst(conn, diag) ==
    IF conn = "NULL" \/ conn = "BAD"
    THEN IF conn # "NULL"
         THEN LET cache == ErrorText("Connection:", diag)
              IN  [err |-> 1, set |-> TRUE,
                   failcode |->
                     IF strstr(cache, "authentication")
                     THEN "PBS_DB_AUTH_FAILED"
                     ELSE IF strstr(cache, "Connection refused")
                             \/ strstr(cache, "No such file or directory")
                     THEN "PBS_DB_CONNREFUSED"
                     ELSE IF strstr(cache, "database system is starting up")
                     THEN "PBS_DB_STILL_STARTING"
                     ELSE "PBS_DB_CONNFAILED"]
         ELSE [err |-> 1, set |-> FALSE, failcode |-> "PBS_DB_CONNFAILED"]
    ELSE [err |-> 0, set |-> FALSE, failcode |-> "PBS_DB_SUCCESS"]

\* is_conn_error: conn is "NULL", "BAD" (CONNECTION_BAD) or "OK"; diag is the
\* backend's error message; failcode "PBS_DB_SUCCESS" stands for "not written"
is_conn_error(conn, diag) ==
    IF conn = "NULL" \/ conn = "BAD"
    THEN IF conn # "NULL"
         THEN LET cache == ErrorText("Connection:", diag)
              IN  [err |-> 1, set |-> TRUE,
                   failcode |->
                     IF strstr(cache, "Connection refused")
                        \/ strstr(cache, "No such file or directory")
                     THEN "PBS_DB_CONNREFUSED"
                     ELSE IF strstr(cache, "authentication")
                     THEN "PBS_DB_AUTH_FAILED"
                     ELSE IF strstr(cache, "database system is starting up")
                     THEN "PBS_DB_STILL_STARTING"
                     ELSE "PBS_DB_CONNFAILED"]
         ELSE [err |-> 1, set |-> FALSE, failcode |-> "PBS_DB_CONNFAILED"]
    ELSE [err |-> 0, set |-> FALSE, failcode |-> "PBS_DB_SUCCESS"]

PrepareOrder == <<"job", "svr", "que", "resv", "node", "sched">>

db_prepare_sqls_lastskip(failAt) ==
    IF failAt \in 1..(Len(PrepareOrder) - 1)
    THEN [rc |-> -1, prepared |-> failAt]
    ELSE [rc |-> 0, prepared |-> Len(PrepareOrder)]

\* db_prepare_sqls: the six module preparations in order; failAt is the
\* first one that fails (0: none)
db_prepare_sqls(failAt) ==
    IF failAt \in 1..Len(PrepareOrder)
    THEN [rc |-> -1, prepared |-> failAt]
    ELSE [rc |-> 0, prepared |-> Len(PrepareOrder)]

\* ------------------------------------------------------- credentials
\* a secret is a string of single quotes, backslashes and ordinary characters
SecretChars == {"'", "\\", "a"}
RECURSIVE SecretStrs(_)
SecretStrs(n) == IF n = 0 THEN {<<>>}
                 ELSE SecretStrs(n - 1)
                      \cup {Append(t, c) : t \in SecretStrs(n - 1), c \in SecretChars}
Secrets == SecretStrs(MaxSecret)
Users == {<<"pbsdata">>, <<"postgres">>}

\* the secret file as get_dataservice_password meets it: open is "ENOENT"
\* (no such file), "EACCES" (present, cannot be opened) or "OK"; st_size is
\* the size fstat reports, nread what read returns, plain the decrypted text
PwdFile(open, fstatOk, st_size, nread, decryptOk, plain) ==
    [open |-> open, fstatOk |-> fstatOk, st_size |-> st_size, nread |-> nread,
     decryptOk |-> decryptOk, plain |-> plain]
PwdFiles ==
    {PwdFile(o, TRUE, 0, 0, TRUE, <<>>) : o \in {"ENOENT", "EACCES"}}
    \cup {PwdFile("OK", FALSE, 0, 0, TRUE, <<>>)}
    \cup {PwdFile("OK", TRUE, sz, 0, TRUE, <<>>) : sz \in (MaxPath + 1)..(MaxPath + 2)}
    \cup UNION {{PwdFile("OK", TRUE, sz, n, TRUE, <<>>) : n \in -1..(sz - 1)} :
                   sz \in 0..MaxPath}
    \cup {PwdFile("OK", TRUE, sz, sz, FALSE, <<>>) : sz \in 0..MaxPath}
    \cup {PwdFile("OK", TRUE, sz, sz, TRUE, t) : sz \in 0..MaxPath, t \in Secrets}

PwdResult(secret, errmsg) == [secret |-> secret, errmsg |-> errmsg]

\* get_dataservice_password; buf holds MAXPATHLEN + 1 bytes (MaxPath + 1 here)
get_dataservice_password(user, f) ==
    IF f.open # "OK"
    THEN PwdResult(CStr(user), "none")
    ELSE IF ~f.fstatOk
    THEN PwdResult(NullStr, "stat failed")
    ELSE IF f.st_size >= MaxPath + 1
    THEN PwdResult(NullStr, "file too large")
    ELSE IF f.nread # f.st_size
    THEN PwdResult(NullStr, "read failed")
    ELSE IF ~f.decryptOk
    THEN PwdResult(NullStr, "none")
    ELSE PwdResult(CStr(f.plain), "none")

EscapeChar_quoteonly(c) ==
    IF c = "'" THEN <<"\\", c>> ELSE <<c>>

\* the body of the loop of escape_passwd: what one source character adds
EscapeChar(c) ==
    IF c = "'" \/ c = "\\" THEN <<"\\", c>> ELSE <<c>>

\* the loop of escape_passwd: i is the position of src, out the bytes
\* written so far (p - dest = Len(out))
RECURSIVE escape_loop(_, _, _, _)
escape_loop(src, i, out, len) ==
    IF i <= Len(src) /\ Len(out) < len
    THEN escape_loop(src, i + 1, out \o EscapeChar(src[i]), len)
    ELSE out

\* escape_passwd(dest, src, len): the string left in dest and the number of
\* bytes written, the terminating zero included
escape_passwd(src, len) ==
    LET out == escape_loop(src, 1, <<>>, len)
    IN  [s |-> out, written |-> Len(out) + 1]

\* the four bytes of a host-order address in network order
htonl_le(x) ==
    <<x % 256, (x \div 256) % 256, (x \div 65536) % 256, x \div 16777216>>

htonl(x) ==
    <<x \div 16777216, (x \div 65536) % 256, (x \div 256) % 256, x % 256>>

\* inet_ntoa: the dotted-decimal text of four address bytes
inet_ntoa(in) == <<in[1], ".", in[2], ".", in[3], ".", in[4]>>

\* one "key = value" field of a connection descriptor
KV(key, val) == [key |-> key, val |-> val]

\* sprintf(svr_conn_info, template1, ...)
sprintf_template1(hostaddr_str, port, dbname, usr, pquoted, timeout) ==
    <<KV("hostaddr", hostaddr_str), KV("port", port), KV("dbname", dbname),
      KV("user", usr), KV("password", pquoted), KV("connect_timeout", timeout)>>

\* sprintf(svr_conn_info, template2, ...)
sprintf_template2(port, dbname, usr, pquoted, timeout) ==
    <<KV("port", port), KV("dbname", dbname), KV("user", usr),
      KV("password", pquoted), KV("connect_timeout", timeout)>>

IPV4_STR_LEN == 15
template1 ==
    "hostaddr = '%s' port = %d dbname = '%s' user = '%s' password = '%s' connect_timeout = %d"
template2 == "port = %d dbname = '%s' user = '%s' password = '%s' connect_timeout = %d"
sizeof(str) == Len(str) + 1
MAX(a, b) == IF a > b THEN a ELSE b

\* strlen of a string kept as a sequence of pieces
RECURSIVE strlen(_)
strlen(s) == IF s = <<>> THEN 0 ELSE Len(Head(s)) + strlen(Tail(s))

\* the number of characters %d prints for n
RECURSIVE DecLen(_)
DecLen(n) == IF n < 0 THEN 1 + DecLen(0 - n)
             ELSE IF n < 10 THEN 1 ELSE 1 + DecLen(n \div 10)

\* the number of characters one argument of sprintf prints
ArgLen(f) ==
    IF f.key \in {"port", "connect_timeout"} THEN DecLen(f.val)
    ELSE IF f.key = "dbname" THEN Len(f.val)
    ELSE IF f.key = "hostaddr"
    THEN Len(f.val) \div 2
         + DecLen(f.val[1]) + DecLen(f.val[3]) + DecLen(f.val[5]) + DecLen(f.val[7])
    ELSE strlen(f.val)
RECURSIVE ArgsLen(_)
ArgsLen(desc) == IF desc = <<>> THEN 0 ELSE ArgLen(Head(desc)) + ArgsLen(Tail(desc))

\* the bytes sprintf(svr_conn_info, template, ...) writes, the terminating
\* zero included: the template with each two-character conversion replaced
\* by its argument
sprintf_bytes(template, desc) ==
    Len(template) - 2 * Len(desc) + ArgsLen(desc) + 1

\* the size passed to malloc for svr_conn_info; the store name is a macro of
\* a header, its length enters the size and the formatted text alike
svr_conn_info_size(in) ==
    MAX(sizeof(template1), sizeof(template2))
    + (IF in.host # "NULL" THEN IPV4_STR_LEN ELSE 0)
    + 5 + Len("PBS_DATA_SERVICE_STORE_NAME") + strlen(in.usr) + strlen(in.p) + 10

\* a released buffer: which one, whether it held the secret, whether it was
\* zeroed before free
Rel(buf, secret, zeroed) == [buf |-> buf, secret |-> secret, zeroed |-> zeroed]

\* inputs of get_db_connect_string: outcome of the account lookup, of the
\* password retrieval, of the two mallocs, the host and its resolution
\* usr and p are the account and the secret when their lookups succeed,
\* addr is what get_hostaddr returns when the host resolves
CSDefault == [usrOk |-> TRUE, pwdOk |-> TRUE, mallocQuoted |-> TRUE,
              mallocInfo |-> TRUE, host |-> "NULL", resolves |-> TRUE,
              ntoaOk |-> TRUE, usr |-> <<"pbsdata">>, p |-> <<"a">>,
              addr |-> 167772161, port |-> 15007, timeout |-> 30]
CSFail == {[CSDefault EXCEPT !.usrOk = FALSE],
           [CSDefault EXCEPT !.pwdOk = FALSE],
           [CSDefault EXCEPT !.mallocQuoted = FALSE],
           [CSDefault EXCEPT !.mallocInfo = FALSE],
           [CSDefault EXCEPT !.host = "host", !.resolves = FALSE],
           [CSDefault EXCEPT !.host = "host", !.ntoaOk = FALSE]}
CSOk == {CSDefault, [CSDefault EXCEPT !.host = "host"]}

CSResult(info, code, template, released, desc) ==
    [info |-> info, err_code |-> code, template |-> template, released |-> released,
     desc |-> desc]

\* get_db_connect_string: the descriptor ("NULL" on failure), the error code
\* written, the template used, the buffers released on the way out and the
\* fields of the descriptor
get_db_connect_string(in) ==
    LET pquoted == escape_passwd(in.p, Len(in.p) * 2 + 1).s
        hostaddr == IF in.resolves THEN in.addr ELSE 0
    IN
    IF ~in.usrOk
    THEN CSResult("NULL", "PBS_DB_AUTH_FAILED", "none", <<>>, <<>>)
    ELSE IF ~in.pwdOk
    THEN CSResult("NULL", "PBS_DB_AUTH_FAILED", "none", <<Rel("usr", FALSE, FALSE)>>,
                  <<>>)
    ELSE IF ~in.mallocQuoted
    THEN CSResult("NULL", "PBS_DB_NOMEM", "none",
                  <<Rel("p", TRUE, FALSE), Rel("usr", FALSE, FALSE)>>, <<>>)
    ELSE IF ~in.mallocInfo
    THEN CSResult("NULL", "PBS_DB_NOMEM", "none",
                  <<Rel("pquoted", TRUE, FALSE), Rel("p", TRUE, FALSE),
                    Rel("usr", FALSE, FALSE)>>, <<>>)
    ELSE IF in.host = "NULL"
    THEN CSResult("INFO", "PBS_DB_SUCCESS", "template2",
                  <<Rel("pquoted", TRUE, TRUE), Rel("p", TRUE, TRUE),
                    Rel("usr", FALSE, FALSE)>>,
                  sprintf_template2(in.port, "PBS_DATA_SERVICE_STORE_NAME", in.usr,
                                    pquoted, in.timeout))
    ELSE IF hostaddr = 0 \/ ~in.ntoaOk
    THEN CSResult("NULL", "PBS_DB_CONNFAILED", "none",
                  <<Rel("pquoted", TRUE, FALSE), Rel("svr_conn_info", FALSE, FALSE),
                    Rel("p", TRUE, FALSE), Rel("usr", FALSE, FALSE)>>, <<>>)
    ELSE CSResult("INFO", "PBS_DB_SUCCESS", "template1",
                  <<Rel("pquoted", TRUE, TRUE), Rel("p", TRUE, TRUE),
                    Rel("usr", FALSE, FALSE)>>,
                  sprintf_template1(inet_ntoa(htonl(hostaddr)), in.port,
                                    "PBS_DATA_SERVICE_STORE_NAME", in.usr, pquoted,
                                    in.timeout))

\* heap of the connection buffers
NewBuf == [state |-> "live", frees |-> 0]
FreeBuf(b, id) ==
    IF id = 0 THEN b
    ELSE [b EXCEPT ![id] = [state |-> "freed", frees |-> @.frees + 1]]
NewSession(status) == [status |-> status, open |-> TRUE, finishes |-> 0]
PQfinish(ss, id) ==
    [ss EXCEPT ![id] = [@ EXCEPT !.open = FALSE, !.finishes = @ + 1]]

Slots == {1, 2}

ConnDefault == [m1 |-> TRUE, m2 |-> TRUE, cs |-> CSDefault, sess |-> "OK",
                diag |-> <<>>, failAt |-> 0]
ConnInputs ==
    {[ConnDefault EXCEPT !.m1 = FALSE], [ConnDefault EXCEPT !.m2 = FALSE]}
    \cup {[ConnDefault EXCEPT !.cs = c] : c \in CSFail}
    \cup {[ConnDefault EXCEPT !.sess = "NULL"]}
    \cup {[ConnDefault EXCEPT !.sess = "BAD", !.diag = d] : d \in Diags}
    \cup {[ConnDefault EXCEPT !.cs = c, !.failAt = f] :
             c \in CSOk, f \in 0..Len(PrepareOrder)}

CallRec(op, slot, failcode, rv, path, data, trx, sess, stops, released, in) ==
    [op |-> op, slot |-> slot, failcode |-> failcode, ret |-> rv, path |-> path,
     data |-> data, trx |-> trx, sess |-> sess, stops |-> stops,
     released |-> released, in |-> in,
     preHandle |-> IF slot = 0 THEN 0 ELSE handles[slot],
     preBufs |-> bufs, preSessions |-> sessions,
     preData |-> conn_data, preTrx |-> conn_trx]

ConnIdle ==
    /\ conn_data = 0
    /\ conn_trx = 0
    /\ bufs = <<>>
    /\ sessions = <<>>
    /\ handles = [s \in Slots |-> 0]
    /\ stopReqs = 0
    /\ nConnects = 0
    /\ lastConn = [op |-> "none", slot |-> 0, failcode |-> "PBS_DB_SUCCESS",
                   ret |-> 0, path |-> "none", data |-> 0, trx |-> 0, sess |-> 0,
                   stops |-> 0, released |-> <<>>, in |-> ConnDefault,
                   preHandle |-> 0, preBufs |-> <<>>, preSessions |-> <<>>,
                   preData |-> 0, preTrx |-> 0]

\* what a failing step of pbs_db_connect leaves in the error cache: the text
\* db_set_error builds, kept here without the backend's words, which
\* is_conn_error has read by then and no later step of a connect reads
ConnErrorCached(fnc) == db_set_error(fnc, CStr(<<>>), CStr(<<>>), CStr(<<>>))

\* the effect of one pbs_db_connect(&handles[slot], host, port, timeout) call
\* on the inputs in
ConnectEffect(slot, in) ==
    LET d == Len(bufs) + 1
        t == Len(bufs) + 2
        cs == get_db_connect_string(in.cs)
        sid == Len(sessions) + 1
        ce == is_conn_error(in.sess, in.diag)
        pr == db_prepare_sqls(in.failAt)
    IN  IF ~in.m1
        THEN /\ conn_data' = 0
             /\ UNCHANGED <<conn_trx, bufs, sessions, handles, stopReqs, errmsg_cache>>
             /\ lastConn' = CallRec("connect", slot, "PBS_DB_NOMEM", 0, "nomem data",
                                    0, 0, 0, 0, <<>>, in)
        ELSE IF ~in.m2
        THEN /\ conn_data' = d
             /\ conn_trx' = 0
             /\ bufs' = FreeBuf(Append(bufs, NewBuf), d)
             /\ UNCHANGED <<sessions, handles, stopReqs, errmsg_cache>>
             /\ lastConn' = CallRec("connect", slot, "PBS_DB_NOMEM", 0, "nomem trx",
                                    d, 0, 0, 0, <<>>, in)
        ELSE IF cs.info = "NULL"
        THEN /\ conn_data' = d
             /\ conn_trx' = t
             /\ bufs' = FreeBuf(FreeBuf(bufs \o <<NewBuf, NewBuf>>, d), t)
             /\ errmsg_cache' = CStr(<<"db_sys_msg">>)
             /\ handles' = [handles EXCEPT ![slot] = 0]
             /\ UNCHANGED <<sessions, stopReqs>>
             /\ lastConn' = CallRec("connect", slot, cs.err_code, 0, "descriptor",
                                    d, t, 0, 0, cs.released, in)
        ELSE LET rel == Append(cs.released, Rel("conn_info", TRUE, TRUE))
             IN
             IF ce.err # 0
             THEN /\ conn_data' = d
                  /\ conn_trx' = t
                  /\ bufs' = FreeBuf(FreeBuf(bufs \o <<NewBuf, NewBuf>>, d), t)
                  /\ errmsg_cache' = IF ce.set THEN ConnErrorCached("Connection:")
                                     ELSE errmsg_cache
                  /\ sessions' = IF in.sess = "NULL" THEN sessions
                                 ELSE Append(sessions, NewSession("BAD"))
                  /\ handles' = [handles EXCEPT ![slot] = 0]
                  /\ UNCHANGED stopReqs
                  /\ lastConn' = CallRec("connect", slot, ce.failcode, 0,
                                         IF in.sess = "NULL" THEN "null session"
                                         ELSE "bad session",
                                         d, t, IF in.sess = "NULL" THEN 0 ELSE sid,
                                         0, rel, in)
             ELSE IF pr.rc # 0
             THEN /\ conn_data' = d
                  /\ conn_trx' = t
                  /\ bufs' = FreeBuf(FreeBuf(bufs \o <<NewBuf, NewBuf>>, d), t)
                  /\ errmsg_cache' = ConnErrorCached("Prepare of statement")
                  /\ sessions' = Append(sessions, NewSession("OK"))
                  /\ handles' = [handles EXCEPT ![slot] = 0]
                  /\ stopReqs' = stopReqs + 1
                  /\ lastConn' = CallRec("connect", slot, "PBS_DB_ERR", 0, "prepare",
                                         d, t, sid, 1, rel, in)
             ELSE /\ conn_data' = d
                  /\ conn_trx' = t
                  /\ bufs' = bufs \o <<NewBuf, NewBuf>>
                  /\ sessions' = Append(sessions, NewSession("OK"))
                  /\ handles' = [handles EXCEPT ![slot] = sid]
                  /\ UNCHANGED <<stopReqs, errmsg_cache>>
                  /\ lastConn' = CallRec("connect", slot, "PBS_DB_SUCCESS", 0, "ok",
                                         d, t, sid, 0, rel, in)

\* pbs_db_connect
ConnectCall ==
    /\ nConnects < MaxConnects
    /\ nConnects' = nConnects + 1
    /\ \E slot \in Slots, in \in ConnInputs : ConnectEffect(slot, in)
    /\ UNCHANGED <<searchRest, migrateVars, stmtVars,
                   authVars, dispVars, sigVars>>

DisconnectCall_notrx ==
    /\ \E slot \in Slots :
          LET conn == handles[slot]
          IN  /\ conn # 0 => sessions[conn].open
              /\ IF conn = 0
                 THEN /\ UNCHANGED <<conn_data, conn_trx, bufs, sessions, handles>>
                      /\ lastConn' = CallRec("disconnect", slot, "PBS_DB_SUCCESS", -1,
                                             "null handle", 0, 0, 0, 0, <<>>,
                                             ConnDefault)
                 ELSE /\ sessions' = PQfinish(sessions, conn)
                      /\ bufs' = FreeBuf(bufs, conn_data)
                      /\ UNCHANGED <<conn_data, conn_trx, handles>>
                      /\ lastConn' = CallRec("disconnect", slot, "PBS_DB_SUCCESS", 0,
                                             "finish", conn_data, conn_trx, conn, 0,
                                             <<>>, ConnDefault)
    /\ UNCHANGED <<stopReqs, nConnects>>
    /\ UNCHANGED <<searchVars, migrateVars, stmtVars,
                   authVars, dispVars, sigVars>>

\* pbs_db_disconnect(handles[slot]); a caller passes a null handle or the
\* handle of a session it has not disconnected yet
DisconnectCall ==
    /\ \E slot \in Slots :
          LET conn == handles[slot]
          IN  /\ conn # 0 => sessions[conn].open
              /\ IF conn = 0
                 THEN /\ UNCHANGED <<conn_data, conn_trx, bufs, sessions, handles>>
                      /\ lastConn' = CallRec("disconnect", slot, "PBS_DB_SUCCESS", -1,
                                             "null handle", 0, 0, 0, 0, <<>>,
                                             ConnDefault)
                 ELSE /\ sessions' = PQfinish(sessions, conn)
                      /\ bufs' = FreeBuf(FreeBuf(bufs, conn_data), conn_trx)
                      /\ UNCHANGED <<conn_data, conn_trx, handles>>
                      /\ lastConn' = CallRec("disconnect", slot, "PBS_DB_SUCCESS", 0,
                                             "finish", conn_data, conn_trx, conn, 0,
                                             <<>>, ConnDefault)
    /\ UNCHANGED <<stopReqs, nConnects>>
    /\ UNCHANGED <<searchVars, migrateVars, stmtVars,
                   authVars, dispVars, sigVars>>

\* ------------------------------------------------------- statements
Statuses == {"PGRES_COMMAND_OK", "PGRES_TUPLES_OK", "PGRES_FATAL_ERROR"}

DigitChars == {"0", "2"}
RECURSIVE DigitStrs(_)
DigitStrs(n) == IF n = 0 THEN {<<>>}
                ELSE DigitStrs(n - 1)
                     \cup {Append(t, c) : t \in DigitStrs(n - 1), c \in DigitChars}
\* what PQcmdTuples can return: NULL, "" or a decimal count
RowStrs == {NullStr} \cup {CStr(t) : t \in DigitStrs(MaxDigits)}

IsDigit(c) == c \in {"0", "1", "2", "3", "4", "5", "6", "7", "8", "9"}
DigitVal(c) ==
    CASE c = "0" -> 0 [] c = "1" -> 1 [] c = "2" -> 2 [] c = "3" -> 3 [] c = "4" -> 4
      [] c = "5" -> 5 [] c = "6" -> 6 [] c = "7" -> 7 [] c = "8" -> 8 [] c = "9" -> 9
RECURSIVE strtolFrom(_, _, _)
strtolFrom(s, i, acc) ==
    IF i > Len(s) \/ ~IsDigit(s[i]) THEN acc
    ELSE strtolFrom(s, i + 1, acc * 10 + DigitVal(s[i]))
\* strtol(s, NULL, 10) on an unsigned decimal prefix
strtol(s) == strtolFrom(s, 1, 0)

StmtResult(rv, h, cache) == [rc |-> rv, heap |-> h, cache |-> cache]

\* db_prepare_stmt
db_prepare_stmt(stmt, status, pq, h, cache) ==
    LET h1 == PQuse([h EXCEPT !.res = "live"])
    IN  IF status # "PGRES_COMMAND_OK"
        THEN StmtResult(-1, PQclear(PQuse(h1)),
                        db_set_error("Prepare of statement", stmt, pq.msg,
                                     pq.sqlstate))
        ELSE StmtResult(0, PQclear(h1), cache)

db_cmd_lt(stmt, status, rows, pq, h, cache) ==
    LET h1 == PQuse([h EXCEPT !.res = "live"])
    IN  IF status # "PGRES_COMMAND_OK"
        THEN StmtResult(-1, PQclear(PQuse(h1)),
                        db_set_error("Execution of Prepared statement", stmt,
                                     pq.msg, pq.sqlstate))
        ELSE IF rows.null \/ strtol(rows.s) < 0
        THEN StmtResult(1, PQclear(PQuse(h1)), cache)
        ELSE StmtResult(0, PQclear(PQuse(h1)), cache)

db_cmd_early_clear(stmt, status, rows, pq, h, cache) ==
    LET h1 == PQuse([h EXCEPT !.res = "live"])
    IN  IF status # "PGRES_COMMAND_OK"
        THEN StmtResult(-1, PQclear(PQuse(h1)),
                        db_set_error("Execution of Prepared statement", stmt,
                                     pq.msg, pq.sqlstate))
        ELSE IF rows.null \/ strtol(rows.s) <= 0
        THEN StmtResult(1, PQuse(PQclear(h1)), cache)
        ELSE StmtResult(0, PQuse(PQclear(h1)), cache)

\* db_cmd: rows is what PQcmdTuples returns, a string inside the result
db_cmd(stmt, status, rows, pq, h, cache) ==
    LET h1 == PQuse([h EXCEPT !.res = "live"])
    IN  IF status # "PGRES_COMMAND_OK"
        THEN StmtResult(-1, PQclear(PQuse(h1)),
                        db_set_error("Execution of Prepared statement", stmt,
                                     pq.msg, pq.sqlstate))
        ELSE IF rows.null \/ strtol(rows.s) <= 0
        THEN StmtResult(1, PQclear(PQuse(h1)), cache)
        ELSE StmtResult(0, PQclear(PQuse(h1)), cache)

db_execute_str_or(sql, status, rows, n, pq, h, cache) ==
    LET h1 == PQuse([h EXCEPT !.res = "live"])
    IN  IF status # "PGRES_COMMAND_OK" /\ status # "PGRES_TUPLES_OK"
        THEN StmtResult(-1, PQclear(PQuse(h1)),
                        db_set_error("Execution of string statement\n", sql,
                                     pq.msg, pq.sqlstate))
        ELSE IF (rows.null \/ strtol(rows.s) <= 0) \/ n <= 0
        THEN StmtResult(1, PQclear(PQuse(h1)), cache)
        ELSE StmtResult(0, PQclear(PQuse(h1)), cache)

\* db_execute_str: rows is what PQcmdTuples returns, n is PQntuples
db_execute_str(sql, status, rows, n, pq, h, cache) ==
    LET h1 == PQuse([h EXCEPT !.res = "live"])
    IN  IF status # "PGRES_COMMAND_OK" /\ status # "PGRES_TUPLES_OK"
        THEN StmtResult(-1, PQclear(PQuse(h1)),
                        db_set_error("Execution of string statement\n", sql,
                                     pq.msg, pq.sqlstate))
        ELSE IF (rows.null \/ strtol(rows.s) <= 0) /\ n <= 0
        THEN StmtResult(1, PQclear(PQuse(h1)), cache)
        ELSE StmtResult(0, PQclear(PQuse(h1)), cache)

StmtRec(fn, a, r) ==
    [fn |-> fn, stmt |-> a.stmt, status |-> a.status, rows |-> a.rows, n |-> a.n,
     pq |-> a.pq, rc |-> r.rc, heap |-> r.heap,
     owned |-> (fn = "db_query" /\ r.rc = 0), cachePre |-> errmsg_cache]

StmtIdle ==
    stmtCall = [fn |-> "none", stmt |-> CStr(<<>>), status |-> "PGRES_COMMAND_OK",
                rows |-> NullStr, n |-> 0, pq |-> NoReport, rc |-> 0,
                heap |-> NoHeap, owned |-> FALSE, cachePre |-> NullStr]

\* the statement name or sql text a caller passes
StmtNames == {CStr(<<"select_job">>)}

\* what the backend can answer: rows come only with PGRES_TUPLES_OK, and a
\* failed statement has an error report and no command tag
Answers ==
    {[stmt |-> s, status |-> "PGRES_COMMAND_OK", rows |-> r, n |-> 0,
      pq |-> NoReport] : s \in StmtNames, r \in RowStrs}
    \cup {[stmt |-> s, status |-> "PGRES_TUPLES_OK", rows |-> r, n |-> k,
           pq |-> NoReport] : s \in StmtNames, r \in RowStrs, k \in 0..MaxRows}
    \cup {[stmt |-> s, status |-> "PGRES_FATAL_ERROR", rows |-> r, n |-> 0,
           pq |-> q] : s \in StmtNames, r \in {NullStr, CStr(<<>>)}, q \in Reports}

StmtPrepare ==
    /\ ~stmtCall.owned
    /\ \E a \in Answers :
          LET r == db_prepare_stmt(a.stmt, a.status, a.pq, NoHeap, errmsg_cache)
          IN  /\ stmtCall' = StmtRec("db_prepare_stmt", a, r)
              /\ errmsg_cache' = r.cache
    /\ UNCHANGED <<searchRest, migrateVars, connVars,
                   authVars, dispVars, sigVars>>

StmtCmd ==
    /\ ~stmtCall.owned
    /\ \E a \in Answers :
          LET r == db_cmd(a.stmt, a.status, a.rows, a.pq, NoHeap, errmsg_cache)
          IN  /\ stmtCall' = StmtRec("db_cmd", a, r)
              /\ errmsg_cache' = r.cache
    /\ UNCHANGED <<searchRest, migrateVars, connVars,
                   authVars, dispVars, sigVars>>

StmtQuery ==
    /\ ~stmtCall.owned
    /\ \E a \in Answers :
          LET r == db_query(a.stmt, a.status, a.n, a.pq, NoHeap, errmsg_cache)
          IN  /\ stmtCall' = StmtRec("db_query", a, r)
              /\ errmsg_cache' = r.cache
    /\ UNCHANGED <<searchRest, migrateVars, connVars,
                   authVars, dispVars, sigVars>>

StmtExecuteStr ==
    /\ ~stmtCall.owned
    /\ \E a \in Answers :
          LET r == db_execute_str(a.stmt, a.status, a.rows, a.n, a.pq, NoHeap,
                                  errmsg_cache)
          IN  /\ stmtCall' = StmtRec("db_execute_str", a, r)
              /\ errmsg_cache' = r.cache
    /\ UNCHANGED <<searchRest, migrateVars, connVars,
                   authVars, dispVars, sigVars>>

\* the caller of db_query releases the result it was handed
StmtCallerClear ==
    /\ stmtCall.owned
    /\ stmtCall' = [stmtCall EXCEPT !.heap = PQclear(PQuse(@)), !.owned = FALSE]
    /\ UNCHANGED <<searchVars, migrateVars, connVars,
                   authVars, dispVars, sigVars>>

\* ------------------------------------------------------- credential calls
AuthIdle ==
    /\ pwdCall = [called |-> FALSE, user |-> <<>>,
                  file |-> PwdFile("ENOENT", TRUE, 0, 0, TRUE, <<>>),
                  out |-> PwdResult(NullStr, "none")]
    /\ escCall = [called |-> FALSE, src |-> <<>>, len |-> 0,
                  out |-> [s |-> <<>>, written |-> 0]]
    /\ csCall = [called |-> FALSE, in |-> CSDefault, size |-> 0,
                 out |-> CSResult("NULL", "PBS_DB_SUCCESS", "none", <<>>, <<>>)]

\* get_dataservice_password(user, errmsg, len)
PasswordCall ==
    /\ \E user \in Users, f \in PwdFiles :
          pwdCall' = [called |-> TRUE, user |-> user, file |-> f,
                      out |-> get_dataservice_password(user, f)]
    /\ UNCHANGED <<escCall, csCall>>
    /\ UNCHANGED <<searchVars, migrateVars, connVars, stmtVars, dispVars, sigVars>>

\* escape_passwd(dest, src, len)
EscapeCall ==
    /\ \E src \in Secrets, len \in 0..(2 * MaxSecret + 2) :
          escCall' = [called |-> TRUE, src |-> src, len |-> len,
                      out |-> escape_passwd(src, len)]
    /\ UNCHANGED <<pwdCall, csCall>>
    /\ UNCHANGED <<searchVars, migrateVars, connVars, stmtVars, dispVars, sigVars>>

HostNames == {"dbhost"}
\* host-order addresses of 10.0.0.1 and 127.0.0.1
Addrs == {167772161, 2130706433}
\* secrets made of single quotes or of backslashes only
QuoteRuns == {[i \in 1..n |-> c] : c \in {"'", "\\"}, n \in 0..MaxQuotes}
CSInputs ==
    CSFail
    \cup {[CSDefault EXCEPT !.p = t, !.host = h] :
             t \in QuoteRuns, h \in {"NULL"} \cup HostNames}
    \cup {[CSDefault EXCEPT !.usr = u, !.p = t] : u \in Users, t \in Secrets}
    \cup {[CSDefault EXCEPT !.usr = u, !.p = t, !.host = h, !.addr = a] :
             u \in Users, t \in Secrets, h \in HostNames, a \in Addrs}

\* get_db_connect_string(host, timeout, &err_code, errmsg, len)
ConnectStringCall ==
    /\ \E in \in CSInputs :
          csCall' = [called |-> TRUE, in |-> in, out |-> get_db_connect_string(in),
                     size |-> IF in.usrOk /\ in.pwdOk /\ in.mallocQuoted /\ in.mallocInfo
                              THEN svr_conn_info_size(in) ELSE 0]
    /\ UNCHANGED <<pwdCall, escCall>>
    /\ UNCHANGED <<searchVars, migrateVars, connVars, stmtVars, dispVars, sigVars>>

\* ------------------------------------------------------- generic entry points
SaveTypes == {"PBS_UPDATE_DB_FULL", "PBS_UPDATE_DB_QUICK", "PBS_INSERT_DB"}
\* what an operation of an entity module returns
OpResults == {-1, 0, 1}

\* the call through a function pointer of the table: fn is the entry, r what
\* the function returns when it runs; a null entry ends the process
CallFn(fn, args, r) ==
    IF fn = "NULL"
    THEN [crashed |-> TRUE, invoked |-> <<>>, ret |-> 0]
    ELSE [crashed |-> FALSE, invoked |-> <<[fn |-> fn, args |-> args]>>, ret |-> r]

\* pbs_db_save_obj
pbs_db_save_obj(obj, savetype, r) ==
    CallFn(db_fn_arr[obj.pbs_db_obj_type].pbs_db_save_obj, <<obj, savetype>>, r)

\* pbs_db_delete_obj
pbs_db_delete_obj(obj, r) ==
    CallFn(db_fn_arr[obj.pbs_db_obj_type].pbs_db_delete_obj, <<obj>>, r)

pbs_db_load_obj_find(obj, r) ==
    CallFn(db_fn_arr[obj.pbs_db_obj_type].pbs_db_find_obj, <<obj>>, r)

\* pbs_db_load_obj
pbs_db_load_obj(obj, r) ==
    CallFn(db_fn_arr[obj.pbs_db_obj_type].pbs_db_load_obj, <<obj>>, r)

DispRec(op, obj, savetype, r, c) ==
    [op |-> op, obj |-> obj, savetype |-> savetype, result |-> r,
     crashed |-> c.crashed, invoked |-> c.invoked, ret |-> c.ret]

PbsDbObj(k) == [pbs_db_obj_type |-> k]

DispatchIdle ==
    dispCall = [op |-> "none", obj |-> PbsDbObj("PBS_DB_SVR"),
                savetype |-> "PBS_UPDATE_DB_FULL", result |-> 0,
                crashed |-> FALSE, invoked |-> <<>>, ret |-> 0]

\* a caller invokes pbs_db_save_obj(conn, obj, savetype)
DispatchSave ==
    /\ ~dispCall.crashed
    /\ \E k \in ObjTypes, savetype \in SaveTypes, r \in OpResults :
          dispCall' = DispRec("save", PbsDbObj(k), savetype, r,
                              pbs_db_save_obj(PbsDbObj(k), savetype, r))
    /\ UNCHANGED <<searchVars, migrateVars, connVars, stmtVars, authVars, sigVars>>

\* a caller invokes pbs_db_delete_obj(conn, obj)
DispatchDelete ==
    /\ ~dispCall.crashed
    /\ \E k \in ObjTypes, r \in OpResults :
          dispCall' = DispRec("delete", PbsDbObj(k), "PBS_UPDATE_DB_FULL", r,
                              pbs_db_delete_obj(PbsDbObj(k), r))
    /\ UNCHANGED <<searchVars, migrateVars, connVars, stmtVars, authVars, sigVars>>

\* a caller invokes pbs_db_load_obj(conn, obj)
DispatchLoad ==
    /\ ~dispCall.crashed
    /\ \E k \in ObjTypes, r \in OpResults :
          dispCall' = DispRec("load", PbsDbObj(k), "PBS_UPDATE_DB_FULL", r,
                              pbs_db_load_obj(PbsDbObj(k), r))
    /\ UNCHANGED <<searchVars, migrateVars, connVars, stmtVars, authVars, sigVars>>

\* ------------------------------------------------------------ signal requests
SIG_SUSPEND == "suspend"
SIG_RESUME == "resume"
SIG_ADMIN_SUSPEND == "admin-suspend"
SIG_ADMIN_RESUME == "admin-resume"
\* the signal names a request may carry; SIGTERM stands for every real signal
SigNames == {SIG_SUSPEND, SIG_RESUME, SIG_ADMIN_SUSPEND, SIG_ADMIN_RESUME, "SIGTERM"}

\* rq_perm of a user, of an operator and of a manager
UserPerm == {"ATR_DFLAG_USRD", "ATR_DFLAG_USWR"}
OperPerm == UserPerm \cup {"ATR_DFLAG_OPRD", "ATR_DFLAG_OPWR"}
MgrPerm == OperPerm \cup {"ATR_DFLAG_MGRD", "ATR_DFLAG_MGWR"}

JobIds == 1..MaxJobs
VnodeIds == 1..MaxJobs
\* the chunks of the exec_vnode of job j, one vnode each: job j runs on
\* the vnodes j..MaxJobs, so the last vnode is shared by all jobs
exec_vnode(j) == [i \in 1..(MaxJobs - j + 1) |-> j + i - 1]

\* a job: state and substate of ji_qs, the two suspend bits of ji_svrflags
\* and the number of times its resources are assigned
Job(state, substate, susp, adm, resc) ==
    [ji_state |-> state, ji_substate |-> substate, Suspend |-> susp,
     AdmSuspd |-> adm, resc |-> resc]
QueuedJob == Job("JOB_STATE_QUEUED", "JOB_SUBSTATE_QUEUED", FALSE, FALSE, 0)
RunningJob == Job("JOB_STATE_RUNNING", "JOB_SUBSTATE_RUNNING", FALSE, FALSE, 1)
ProvisionJob == Job("JOB_STATE_RUNNING", "JOB_SUBSTATE_PROVISION", FALSE, FALSE, 1)
SuspendedJob == Job("JOB_STATE_RUNNING", "JOB_SUBSTATE_SUSPEND", TRUE, FALSE, 0)
AdmSuspendedJob == Job("JOB_STATE_RUNNING", "JOB_SUBSTATE_SUSPEND", TRUE, TRUE, 0)

svr_setjobstate(pjob, state, substate) ==
    [pjob EXCEPT !.ji_state = state, !.ji_substate = substate]
\* set_resc_assigned(pjob, 0, INCR)
set_resc_assigned_INCR(pjob) == [pjob EXCEPT !.resc = @ + 1]
\* rel_resc(pjob): one assignment of the job's resources is given back
rel_resc(pjob) == [pjob EXCEPT !.resc = @ - 1]

IsResume(signame) == signame \in {SIG_RESUME, SIG_ADMIN_RESUME}
IsSuspend(signame) == signame \in {SIG_SUSPEND, SIG_ADMIN_SUSPEND}

\* a vnode: the jobs attribute ND_ATR_MaintJobs and the INUSE_MAINTENANCE bit
Vnode(maintJobs, maint) == [MaintJobs |-> maintJobs, maintenance |-> maint]
OnVnode(j, n) == \E i \in 1..Len(exec_vnode(j)) : exec_vnode(j)[i] = n

\* set_arst(..., DECR): the first entry equal to jid leaves the list
RECURSIVE set_arst_DECR(_, _)
set_arst_DECR(list, jid) ==
    IF list = <<>> THEN <<>>
    ELSE IF Head(list) = jid THEN Tail(list)
    ELSE <<Head(list)>> \o set_arst_DECR(Tail(list), jid)

\* the loop of set_admin_suspend over the chunks of exec_vnode, from chunk i
RECURSIVE admin_suspend_chunks(_, _, _, _)
admin_suspend_chunks(nodes, jid, set_remove_nstate, i) ==
    IF i > Len(exec_vnode(jid)) THEN nodes
    ELSE LET n == exec_vnode(jid)[i]
             upd == IF set_remove_nstate = 1
                    THEN Vnode(Append(nodes[n].MaintJobs, jid), TRUE)
                    ELSE LET l == set_arst_DECR(nodes[n].MaintJobs, jid)
                         IN  Vnode(l, IF Len(l) = 0 THEN FALSE
                                      ELSE nodes[n].maintenance)
         IN  admin_suspend_chunks([nodes EXCEPT ![n] = upd], jid,
                                  set_remove_nstate, i + 1)

\* set_admin_suspend(pjob, set_remove_nstate); strdupOk is whether the copy
\* of exec_vnode could be allocated
set_admin_suspend(pjob, nodes, jid, set_remove_nstate, strdupOk) ==
    IF ~strdupOk THEN [job |-> pjob, nodes |-> nodes]
    ELSE [job |-> [pjob EXCEPT !.AdmSuspd = (set_remove_nstate = 1)],
          nodes |-> admin_suspend_chunks(nodes, jid, set_remove_nstate, 1)]

\* result of req_signaljob2: the job afterwards, the reply sent ("none" when
\* the request went to MOM), whether it was relayed, whether the scheduler
\* was flagged
Sj2(job, reply, relayed, sched) ==
    [job |-> job, reply |-> reply, relayed |-> relayed, sched |-> sched]

req_signaljob2_relayresume(preq, pjob, assign_rc, relay_rc) ==
    LET signame == preq.rq_signame
        resume == IsResume(signame)
    IN
    IF pjob.ji_state # "JOB_STATE_RUNNING"
       \/ (pjob.ji_state = "JOB_STATE_RUNNING"
           /\ pjob.ji_substate = "JOB_SUBSTATE_PROVISION")
    THEN Sj2(pjob, "PBSE_BADSTATE", FALSE, FALSE)
    ELSE IF (signame = SIG_ADMIN_RESUME /\ ~pjob.AdmSuspd)
            \/ (signame = SIG_RESUME /\ pjob.AdmSuspd)
    THEN Sj2(pjob, "PBSE_WRONG_RESUME", FALSE, FALSE)
    ELSE IF resume /\ ~pjob.Suspend
    THEN Sj2(pjob, "PBSE_BADSTATE", FALSE, FALSE)
    ELSE IF resume /\ assign_rc # "OK"
    THEN Sj2(pjob, assign_rc, FALSE, FALSE)
    ELSE LET assigned == IF resume THEN set_resc_assigned_INCR(pjob) ELSE pjob
         IN  IF relay_rc # "OK"
             THEN Sj2(IF resume THEN rel_resc(assigned) ELSE assigned, relay_rc,
                      FALSE, FALSE)
             ELSE Sj2(assigned, "none", TRUE, FALSE)

req_signaljob2_resumeany(preq, pjob, assign_rc, relay_rc) ==
    LET signame == preq.rq_signame
        resume == IsResume(signame)
    IN
    IF pjob.ji_state # "JOB_STATE_RUNNING"
       \/ (pjob.ji_state = "JOB_STATE_RUNNING"
           /\ pjob.ji_substate = "JOB_SUBSTATE_PROVISION")
    THEN Sj2(pjob, "PBSE_BADSTATE", FALSE, FALSE)
    ELSE IF (signame = SIG_ADMIN_RESUME /\ ~pjob.AdmSuspd)
            \/ (signame = SIG_RESUME /\ pjob.AdmSuspd)
    THEN Sj2(pjob, "PBSE_WRONG_RESUME", FALSE, FALSE)
    ELSE IF resume /\ ~(preq.rq_fromsvr = 1 \/ signame = SIG_ADMIN_RESUME)
    THEN Sj2(svr_setjobstate(pjob, "JOB_STATE_RUNNING", "JOB_SUBSTATE_SCHSUSP"),
             "ack", FALSE, TRUE)
    ELSE IF resume /\ assign_rc # "OK"
    THEN Sj2(pjob, assign_rc, FALSE, FALSE)
    ELSE LET assigned == IF resume THEN set_resc_assigned_INCR(pjob) ELSE pjob
         IN  IF relay_rc # "OK"
             THEN Sj2(IF resume THEN rel_resc(assigned) ELSE assigned, relay_rc,
                      FALSE, FALSE)
             ELSE Sj2(assigned, "none", TRUE, FALSE)

\* req_signaljob2(preq, pjob); assign_rc is what assign_hosts returns and
\* relay_rc what relay_to_mom returns
req_signaljob2(preq, pjob, assign_rc, relay_rc) ==
    LET signame == preq.rq_signame
        resume == IsResume(signame)
    IN
    IF pjob.ji_state # "JOB_STATE_RUNNING"
       \/ (pjob.ji_state = "JOB_STATE_RUNNING"
           /\ pjob.ji_substate = "JOB_SUBSTATE_PROVISION")
    THEN Sj2(pjob, "PBSE_BADSTATE", FALSE, FALSE)
    ELSE IF (signame = SIG_ADMIN_RESUME /\ ~pjob.AdmSuspd)
            \/ (signame = SIG_RESUME /\ pjob.AdmSuspd)
    THEN Sj2(pjob, "PBSE_WRONG_RESUME", FALSE, FALSE)
    ELSE IF resume /\ ~pjob.Suspend
    THEN Sj2(pjob, "PBSE_BADSTATE", FALSE, FALSE)
    ELSE IF resume /\ ~(preq.rq_fromsvr = 1 \/ signame = SIG_ADMIN_RESUME)
    THEN Sj2(svr_setjobstate(pjob, "JOB_STATE_RUNNING", "JOB_SUBSTATE_SCHSUSP"),
             "ack", FALSE, TRUE)
    ELSE IF resume /\ assign_rc # "OK"
    THEN Sj2(pjob, assign_rc, FALSE, FALSE)
    ELSE LET assigned == IF resume THEN set_resc_assigned_INCR(pjob) ELSE pjob
         IN  IF relay_rc # "OK"
             THEN Sj2(IF resume THEN rel_resc(assigned) ELSE assigned, relay_rc,
                      FALSE, FALSE)
             ELSE Sj2(assigned, "none", TRUE, FALSE)

\* result of post_signal_req: the job and the vnodes afterwards and the
\* reply sent for the request
Psr(job, nodes, reply) == [job |-> job, nodes |-> nodes, reply |-> reply]

post_signal_req_again(preq, pjob, nodes, jid, brp_code, strdupOk) ==
    LET signame == preq.rq_signame
    IN
    IF brp_code # "OK"
    THEN Psr(IF IsResume(signame) THEN rel_resc(pjob) ELSE pjob, nodes,
             IF brp_code = "PBSE_UNKJOBID" THEN "PBSE_INTERNAL" ELSE brp_code)
    ELSE IF IsSuspend(signame) /\ pjob.ji_state = "JOB_STATE_RUNNING"
    THEN LET ss == IF preq.rq_fromsvr = 1 THEN "JOB_SUBSTATE_SCHSUSP"
                   ELSE "JOB_SUBSTATE_SUSPEND"
             released == rel_resc([pjob EXCEPT !.Suspend = TRUE])
             adm == IF signame = SIG_ADMIN_SUSPEND
                    THEN set_admin_suspend(released, nodes, jid, 1, strdupOk)
                    ELSE [job |-> released, nodes |-> nodes]
         IN  Psr(svr_setjobstate(adm.job, "JOB_STATE_RUNNING", ss), adm.nodes,
                 "ack")
    ELSE IF IsResume(signame) /\ pjob.ji_state = "JOB_STATE_RUNNING"
    THEN LET cleared == [pjob EXCEPT !.Suspend = FALSE]
             adm == IF signame = SIG_ADMIN_RESUME
                    THEN set_admin_suspend(cleared, nodes, jid, 0, strdupOk)
                    ELSE [job |-> cleared, nodes |-> nodes]
         IN  Psr(svr_setjobstate(adm.job, "JOB_STATE_RUNNING",
                                 "JOB_SUBSTATE_RUNNING"), adm.nodes, "ack")
    ELSE Psr(pjob, nodes, "ack")

\* post_signal_req(pwt): preq is the request MOM answered, pjob its
\* rq_extra, brp_code the code of MOM's reply
post_signal_req(preq, pjob, nodes, jid, brp_code, strdupOk) ==
    LET signame == preq.rq_signame
    IN
    IF brp_code # "OK"
    THEN Psr(IF IsResume(signame) THEN rel_resc(pjob) ELSE pjob, nodes,
             IF brp_code = "PBSE_UNKJOBID" THEN "PBSE_INTERNAL" ELSE brp_code)
    ELSE IF IsSuspend(signame) /\ pjob.ji_state = "JOB_STATE_RUNNING"
    THEN IF ~pjob.Suspend
         THEN LET ss == IF preq.rq_fromsvr = 1 THEN "JOB_SUBSTATE_SCHSUSP"
                        ELSE "JOB_SUBSTATE_SUSPEND"
                  released == rel_resc([pjob EXCEPT !.Suspend = TRUE])
                  adm == IF signame = SIG_ADMIN_SUSPEND
                         THEN set_admin_suspend(released, nodes, jid, 1, strdupOk)
                         ELSE [job |-> released, nodes |-> nodes]
              IN  Psr(svr_setjobstate(adm.job, "JOB_STATE_RUNNING", ss),
                      adm.nodes, "ack")
         ELSE Psr(pjob, nodes, "ack")
    ELSE IF IsResume(signame) /\ pjob.ji_state = "JOB_STATE_RUNNING"
    THEN LET cleared == [pjob EXCEPT !.Suspend = FALSE]
             adm == IF signame = SIG_ADMIN_RESUME
                    THEN set_admin_suspend(cleared, nodes, jid, 0, strdupOk)
                    ELSE [job |-> cleared, nodes |-> nodes]
         IN  Psr(svr_setjobstate(adm.job, "JOB_STATE_RUNNING",
                                 "JOB_SUBSTATE_RUNNING"), adm.nodes, "ack")
    ELSE Psr(pjob, nodes, "ack")

\* a request relayed to MOM: the job, the signal, rq_fromsvr and the array
\* or range request it was made for (rq_parentbr, 0 when it has none)
MomReq(jid, preq, parent) ==
    [jid |-> jid, rq_signame |-> preq.rq_signame, rq_fromsvr |-> preq.rq_fromsvr,
     rq_parentbr |-> parent]

\* an array or range request: its rq_refct and the replies sent for it
Br(refct, replies) == [rq_refct |-> refct, replies |-> replies]

\* reply_send/req_reject/reply_ack on a request made for a subjob: the parent
\* loses one reference and is replied to when none is left
reply_child(b) ==
    IF b.rq_refct - 1 = 0 THEN Br(0, b.replies + 1) ELSE Br(b.rq_refct - 1, b.replies)

\* the subjob indices x, x+z, ... up to y that numindex_to_offset knows
RECURSIVE range_indices(_, _, _)
range_indices(x, y, z) ==
    IF x > y THEN <<>>
    ELSE (IF x \in JobIds THEN <<x>> ELSE <<>>) \o range_indices(x + z, y, z)
\* every offset below tkm_ct
all_indices == [i \in 1..MaxJobs |-> i]

\* state of the fan-out loop: the jobs, the requests at MOM, rq_refct of the
\* request being served, whether the scheduler was flagged
Fan(js, mom, refct, sched) ==
    [jobs |-> js, atMom |-> mom, rq_refct |-> refct, sched |-> sched]

\* the loops of req_signaljob over the subjobs idx[i..]: each running subjob
\* (skipFlagged: unless a suspend finds it suspended or a resume finds it
\* not suspended) gets a request of its own through dup_br_for_subjob, which
\* takes a reference on preq and calls req_signaljob2
RECURSIVE fan_out(_, _, _, _, _, _, _, _)
fan_out(preq, me, idx, i, skipFlagged, assign_rc, relay, f) ==
    IF i > Len(idx) THEN f
    ELSE LET j == idx[i]
             pjob == f.jobs[j]
             skip == \/ pjob.ji_state # "JOB_STATE_RUNNING"
                     \/ /\ skipFlagged
                        /\ \/ IsSuspend(preq.rq_signame) /\ pjob.Suspend
                           \/ IsResume(preq.rq_signame) /\ ~pjob.Suspend
             r == req_signaljob2(preq, pjob, assign_rc, relay[j])
         IN  fan_out(preq, me, idx, i + 1, skipFlagged, assign_rc, relay,
                 IF skip THEN f
                 ELSE Fan([f.jobs EXCEPT ![j] = r.job],
                          IF r.relayed
                          THEN f.atMom (+) SetToBag({MomReq(j, preq, me)})
                          ELSE f.atMom,
                          IF r.reply = "none" THEN f.rq_refct + 1 ELSE f.rq_refct,
                          f.sched \/ r.sched))

\* what a handler did: the operation, the request, the job it acted on (0
\* for a fan-out), the reply it sent for the request it was called with
\* ("none": no reply yet), the signals it relayed, whether it flagged the
\* scheduler
SigRec(op, preq, jid, reply, relayed, sched) ==
    [op |-> op, rq_signame |-> preq.rq_signame, rq_fromsvr |-> preq.rq_fromsvr,
     jid |-> jid, reply |-> reply, relayed |-> relayed, sched |-> sched]

\* a Signal Job request: signal, origin, privilege, what chk_job_request
\* says the job id names, and the job index or the range
Preq(signame, fromsvr, perm, jt, jid, range) ==
    [rq_signame |-> signame, rq_fromsvr |-> fromsvr, rq_perm |-> perm,
     jt |-> jt, jid |-> jid, range |-> range]
NoPreq == Preq("SIGTERM", 0, UserPerm, "IS_ARRAY_NO", 0, <<>>)

\* requests of the server itself carry manager privilege and a plain signal;
\* the requests sent for array jobs are those of operators and of the server
\* and carry no admin signal
Origins == IF ajob = "none"
           THEN {<<0, UserPerm>>, <<0, OperPerm>>, <<1, MgrPerm>>}
           ELSE {<<0, OperPerm>>, <<1, MgrPerm>>}
SignalsOf(o) == IF o[1] = 1 THEN {SIG_SUSPEND, SIG_RESUME}
                ELSE IF ajob = "none" THEN SigNames
                ELSE {SIG_SUSPEND, SIG_RESUME, "SIGTERM"}
\* the ranges x-y:z a job id may carry
Ranges == {<<1, MaxJobs + 1, 1>>, <<1, MaxJobs, 2>>, <<MaxJobs, MaxJobs, 1>>,
           <<MaxJobs, 1, 1>>}
\* the regular jobs the requests name; the other jobs only share vnodes
Signalled == {1}
Targets ==
    IF ajob = "none"
    THEN {<<"IS_ARRAY_NO", j, <<>>>> : j \in Signalled}
    ELSE {<<"IS_ARRAY_Single", j, <<>>>> : j \in {1, MaxJobs + 1}}
         \cup {<<"IS_ARRAY_ArrayJob", 0, <<>>>>}
         \cup {<<"IS_ARRAY_Range", 0, r>> : r \in Ranges}
Preqs ==
    UNION {{Preq(sig, o[1], o[2], t[1], t[2], t[3]) :
               sig \in SignalsOf(o), t \in Targets} : o \in Origins}
MomCodes == {"OK", "PBSE_UNKJOBID", "PBSE_SYSTEM"}
\* what the collaborators of one req_signaljob call answer: chk_job_request
\* (chkOk), the range parser (rangeOk), assign_hosts (assign_rc: 0 or an
\* error code; called for a resume only) and relay_to_mom for each job
\* (relay: 0 or an error code)
ReqInputs(preq) ==
    LET allOk == [j \in JobIds |-> "OK"]
        RelayRcs == {"OK", "PBSE_NORELYMOM"}
    IN  {[chkOk |-> FALSE, rangeOk |-> TRUE, assign_rc |-> "OK", relay |-> allOk]}
        \cup (IF preq.jt = "IS_ARRAY_Range"
              THEN {[chkOk |-> TRUE, rangeOk |-> FALSE, assign_rc |-> "OK",
                     relay |-> allOk]}
              ELSE {})
        \cup {[chkOk |-> TRUE, rangeOk |-> TRUE, assign_rc |-> a, relay |-> r] :
                 a \in IF IsResume(preq.rq_signame) THEN {"OK", "PBSE_UNKNODE"}
                       ELSE {"OK"},
                 r \in IF preq.jt \in {"IS_ARRAY_ArrayJob", "IS_ARRAY_Range"}
                       THEN [JobIds -> RelayRcs]
                       ELSE {[j \in JobIds |-> c] : c \in RelayRcs}}

SignalIdle ==
    /\ ajob = "none"
    /\ jobs = [j \in JobIds |-> QueuedJob]
    /\ pbsnodes = [n \in VnodeIds |-> Vnode(<<>>, FALSE)]
    /\ atMom = EmptyBag
    /\ brs = <<>>
    /\ nReqs = 0
    /\ lastSig = SigRec("none", NoPreq, 0, "none", FALSE, FALSE)

\* the vnodes as the admin-suspended jobs among js have left them
NodesOf(js) ==
    [n \in VnodeIds |->
        LET l == SelectSeq(all_indices, LAMBDA j : js[j].AdmSuspd /\ OnVnode(j, n))
        IN  Vnode(l, Len(l) > 0)]

\* regular jobs, no request pending
SignalInit ==
    /\ ajob = "none"
    /\ jobs \in {js \in [JobIds -> {QueuedJob, RunningJob, ProvisionJob,
                                      SuspendedJob, AdmSuspendedJob}] :
                    \A j \in JobIds \ Signalled :
                       js[j] \in {RunningJob, AdmSuspendedJob}}
    /\ pbsnodes = NodesOf(jobs)
    /\ atMom = EmptyBag
    /\ brs = <<>>
    /\ nReqs = 0
    /\ lastSig = SigRec("none", NoPreq, 0, "none", FALSE, FALSE)

\* the subjobs of one array job, no request pending; an array job that has
\* not begun has queued subjobs only
ArrayInit ==
    /\ ajob \in {"JOB_STATE_BEGUN", "JOB_STATE_QUEUED"}
    /\ jobs \in [JobIds -> {QueuedJob, RunningJob, SuspendedJob}]
    /\ ajob = "JOB_STATE_QUEUED" => \A j \in JobIds : jobs[j] = QueuedJob
    /\ pbsnodes = NodesOf(jobs)
    /\ atMom = EmptyBag
    /\ brs = <<>>
    /\ nReqs = 0
    /\ lastSig = SigRec("none", NoPreq, 0, "none", FALSE, FALSE)

\* req_signaljob rejects preq before any job is touched
SignalReject(preq, code) ==
    /\ lastSig' = SigRec("req", preq, 0, code, FALSE, FALSE)
    /\ UNCHANGED <<jobs, pbsnodes, atMom, brs>>

\* req_signaljob hands preq and job j to req_signaljob2 and is done
SignalOne(preq, j, assign_rc, relay_rc) ==
    LET r == req_signaljob2(preq, jobs[j], assign_rc, relay_rc)
    IN  /\ jobs' = [jobs EXCEPT ![j] = r.job]
        /\ atMom' = IF r.relayed THEN atMom (+) SetToBag({MomReq(j, preq, 0)})
                    ELSE atMom
        /\ lastSig' = SigRec("req", preq, j, r.reply, r.relayed, r.sched)
        /\ UNCHANGED <<pbsnodes, brs>>

SignalFan_replyatend(preq, idx, skipFlagged, assign_rc, relay) ==
    LET me == Len(brs) + 1
        f == fan_out(preq, me, idx, 1, skipFlagged, assign_rc, relay,
                     Fan(jobs, atMom, 1, FALSE))
        left == f.rq_refct - 1
    IN  /\ jobs' = f.jobs
        /\ atMom' = f.atMom
        /\ brs' = Append(brs, Br(left, 1))
        /\ lastSig' = SigRec("req", preq, 0, "ack", f.atMom # atMom, f.sched)
        /\ UNCHANGED pbsnodes

\* req_signaljob serves the subjobs idx of an array or range request: takes
\* its own reference, fans out, drops the reference and replies if that was
\* the last one
SignalFan(preq, idx, skipFlagged, assign_rc, relay) ==
    LET me == Len(brs) + 1
        f == fan_out(preq, me, idx, 1, skipFlagged, assign_rc, relay,
                     Fan(jobs, atMom, 1, FALSE))
        left == f.rq_refct - 1
    IN  /\ jobs' = f.jobs
        /\ atMom' = f.atMom
        /\ brs' = Append(brs, Br(left, IF left = 0 THEN 1 ELSE 0))
        /\ lastSig' = SigRec("req", preq, 0, IF left = 0 THEN "ack" ELSE "none",
                             f.atMom # atMom, f.sched)
        /\ UNCHANGED pbsnodes

\* the number of running subjobs among idx (anygood)
RECURSIVE anygood(_, _)
anygood(idx, i) ==
    IF i > Len(idx) THEN 0
    ELSE (IF jobs[idx[i]].ji_state = "JOB_STATE_RUNNING" THEN 1 ELSE 0)
         + anygood(idx, i + 1)

req_signaljob_noperm(preq, chkOk, rangeOk, assign_rc, relay) ==
    IF ~chkOk
    THEN SignalReject(preq, "chk_job_request")
    ELSE IF preq.jt = "IS_ARRAY_NO"
    THEN SignalOne(preq, preq.jid, assign_rc, relay[preq.jid])
    ELSE IF preq.jt = "IS_ARRAY_Single"
    THEN IF preq.jid \notin JobIds
         THEN SignalReject(preq, "PBSE_UNKJOBID")
         ELSE IF jobs[preq.jid].ji_state = "JOB_STATE_RUNNING"
         THEN SignalOne(preq, preq.jid, assign_rc, relay[preq.jid])
         ELSE SignalReject(preq, "PBSE_BADSTATE")
    ELSE IF preq.jt = "IS_ARRAY_ArrayJob"
    THEN IF ajob # "JOB_STATE_BEGUN"
         THEN SignalReject(preq, "PBSE_BADSTATE")
         ELSE SignalFan(preq, all_indices, TRUE, assign_rc, relay)
    ELSE IF ~rangeOk
    THEN SignalReject(preq, "PBSE_IVALREQ")
    ELSE LET idx == range_indices(preq.range[1], preq.range[2], preq.range[3])
         IN  IF anygood(idx, 1) = 0
             THEN SignalReject(preq, "PBSE_BADSTATE")
             ELSE SignalFan(preq, idx, FALSE, assign_rc, relay)

\* req_signaljob(preq): chkOk is whether chk_job_request found the job and
\* let the request pass (it replies itself when it does not), rangeOk whether
\* the range of a range request parses
req_signaljob(preq, chkOk, rangeOk, assign_rc, relay) ==
    IF ~chkOk
    THEN SignalReject(preq, "chk_job_request")
    ELSE IF (IsSuspend(preq.rq_signame) \/ IsResume(preq.rq_signame))
            /\ preq.rq_perm \cap {"ATR_DFLAG_OPRD", "ATR_DFLAG_OPWR",
                                  "ATR_DFLAG_MGRD", "ATR_DFLAG_MGWR"} = {}
    THEN SignalReject(preq, "PBSE_PERM")
    ELSE IF preq.jt = "IS_ARRAY_NO"
    THEN SignalOne(preq, preq.jid, assign_rc, relay[preq.jid])
    ELSE IF preq.jt = "IS_ARRAY_Single"
    THEN IF preq.jid \notin JobIds
         THEN SignalReject(preq, "PBSE_UNKJOBID")
         ELSE IF jobs[preq.jid].ji_state = "JOB_STATE_RUNNING"
         THEN SignalOne(preq, preq.jid, assign_rc, relay[preq.jid])
         ELSE SignalReject(preq, "PBSE_BADSTATE")
    ELSE IF preq.jt = "IS_ARRAY_ArrayJob"
    THEN IF ajob # "JOB_STATE_BEGUN"
         THEN SignalReject(preq, "PBSE_BADSTATE")
         ELSE SignalFan(preq, all_indices, TRUE, assign_rc, relay)
    ELSE IF ~rangeOk
    THEN SignalReject(preq, "PBSE_IVALREQ")
    ELSE LET idx == range_indices(preq.range[1], preq.range[2], preq.range[3])
         IN  IF anygood(idx, 1) = 0
             THEN SignalReject(preq, "PBSE_BADSTATE")
             ELSE SignalFan(preq, idx, FALSE, assign_rc, relay)

\* a Signal Job request arrives and req_signaljob serves it
ReqSignalJob ==
    /\ nReqs < (IF ajob = "none" THEN MaxRequests ELSE MaxArrayRequests)
    /\ nReqs' = nReqs + 1
    /\ \E preq \in Preqs :
          \E in \in ReqInputs(preq) :
             req_signaljob(preq, in.chkOk, in.rangeOk, in.assign_rc, in.relay)
    /\ UNCHANGED ajob
    /\ UNCHANGED <<searchVars, migrateVars, connVars, stmtVars, authVars, dispVars>>

\* MOM answers one of the relayed requests and post_signal_req completes it
PostSignalReq ==
    /\ \E m \in BagToSet(atMom), brp_code \in MomCodes, strdupOk \in BOOLEAN :
          LET r == post_signal_req(m, jobs[m.jid], pbsnodes, m.jid, brp_code,
                                   strdupOk)
          IN  \* strdup is called for the two admin signals only
              /\ ~strdupOk => m.rq_signame \in {SIG_ADMIN_SUSPEND, SIG_ADMIN_RESUME}
              /\ atMom' = atMom (-) SetToBag({m})
              /\ jobs' = [jobs EXCEPT ![m.jid] = r.job]
              /\ pbsnodes' = r.nodes
              /\ brs' = IF m.rq_parentbr = 0 THEN brs
                        ELSE [brs EXCEPT ![m.rq_parentbr] = reply_child(@)]
              /\ lastSig' = SigRec("post",
                                   Preq(m.rq_signame, m.rq_fromsvr, MgrPerm,
                                        "IS_ARRAY_NO", m.jid, <<>>),
                                   m.jid, r.reply, FALSE, FALSE)
    /\ UNCHANGED <<ajob, nReqs>>
    /\ UNCHANGED <<searchVars, migrateVars, connVars, stmtVars, authVars, dispVars>>

\* ------------------------------------------------------- specifications
Init == SearchInit /\ MigrateIdle /\ ConnIdle /\ StmtIdle /\ AuthIdle
    /\ DispatchIdle /\ SignalIdle

Next ==
    \/ SearchCall
    \/ SearchFind
    \/ SearchCheck
    \/ SearchNext
    \/ SearchCallback
    \/ SearchExit
    \/ SearchReturn

Spec == Init /\ [][Next]_vars

InitMigrate == SearchIdle /\ MigrateInit /\ ConnIdle /\ StmtIdle /\ AuthIdle
    /\ DispatchIdle /\ SignalIdle

NextMigrate ==
    \/ MigrateCall
    \/ MigrateRecover
    \/ MigrateMark
    \/ MigrateSave
    \/ MigrateCurrent
    \/ MigrateUnknown
    \/ MigrateReturn

SpecMigrate == InitMigrate /\ [][NextMigrate]_vars

InitConn == SearchIdle /\ MigrateIdle /\ ConnIdle /\ StmtIdle /\ AuthIdle
    /\ DispatchIdle /\ SignalIdle

NextConn ==
    \/ ConnectCall
    \/ DisconnectCall

SpecConn == InitConn /\ [][NextConn]_vars

InitStmt == SearchIdle /\ MigrateIdle /\ ConnIdle /\ StmtIdle /\ AuthIdle
    /\ DispatchIdle /\ SignalIdle

NextStmt ==
    \/ StmtPrepare
    \/ StmtCmd
    \/ StmtQuery
    \/ StmtExecuteStr
    \/ StmtCallerClear

SpecStmt == InitStmt /\ [][NextStmt]_vars

InitAuth == SearchIdle /\ MigrateIdle /\ ConnIdle /\ StmtIdle /\ AuthIdle
    /\ DispatchIdle /\ SignalIdle

NextPassword == PasswordCall

SpecPassword == InitAuth /\ [][NextPassword]_vars

NextEscape == EscapeCall

SpecEscape == InitAuth /\ [][NextEscape]_vars

NextConnString == ConnectStringCall

SpecConnString == InitAuth /\ [][NextConnString]_vars

InitDispatch == SearchIdle /\ MigrateIdle /\ ConnIdle /\ StmtIdle /\ AuthIdle
    /\ DispatchIdle /\ SignalIdle

NextDispatch ==
    \/ DispatchSave
    \/ DispatchDelete
    \/ DispatchLoad

SpecDispatch == InitDispatch /\ [][NextDispatch]_vars

InitSignal == SearchIdle /\ MigrateIdle /\ ConnIdle /\ StmtIdle /\ AuthIdle
    /\ DispatchIdle /\ SignalInit

NextSignal ==
    \/ ReqSignalJob
    \/ PostSignalReq

SpecSignal == InitSignal /\ [][NextSignal]_vars

InitArray == SearchIdle /\ MigrateIdle /\ ConnIdle /\ StmtIdle /\ AuthIdle
    /\ DispatchIdle /\ ArrayInit

SpecArray == InitArray /\ [][NextSignal]_vars

\* ------------------------------------------------------- query cursor claims
Last(seq) == seq[Len(seq)]
OkFetches == {i \in 1..Len(fetchLog) : fetchLog[i].ret = 0}
Accepted == {i \in 1..Len(cbLog) : cbLog[i].refreshed # 0}
Exhausted == Len(nextLog) > 0 /\ Last(nextLog) = 1

\* C1: a search whose cursor is drained until next reports no-more-rows made
\* exactly count successful row fetches (count = rows of the result set),
\* then got exactly one no-more-rows result, and the result set of the find
\* query is released exactly once (never more than once at any time).
C1_DrainYieldsCountRows ==
    /\ heap.clears <= 1
    /\ (spc \in {"exit", "done"} /\ Exhausted) =>
          /\ Len(fetchLog) = ntuples
          /\ Cardinality(OkFetches) = ntuples
          /\ Len(nextLog) = ntuples + 1
          /\ \A i \in 1..ntuples : nextLog[i] = 0
    /\ (spc = "done" /\ Exhausted) =>
          /\ heap.clears = 1
          /\ heap.res = "cleared"

C1_Witness ==
    /\ spc = "done"
    /\ Exhausted
    /\ ntuples >= 2
    /\ Cardinality(OkFetches) = ntuples
    /\ heap.clears = 1

\* C2: on every return of pbs_db_search after the cursor state was created
\* the state has been freed exactly once, its result set (if it holds one)
\* has been cleared exactly once, and no state or result stays allocated.
C2_CursorDestroyedOnce ==
    /\ heap.frees <= 1
    /\ (spc = "done" /\ stPtr # "NULL") =>
          /\ heap.st = "freed"
          /\ heap.frees = 1
          /\ heap.res # "live"
          /\ (st.res # "NULL" => heap.res = "cleared" /\ heap.clears = 1)
    /\ (spc = "done" /\ stPtr = "NULL") =>
          /\ heap.st = "none"
          /\ heap.res = "none"

C2_Witness ==
    /\ spc = "done"
    /\ stPtr # "NULL"
    /\ rc = -1
    /\ st.res # "NULL"
    /\ heap.st = "freed"
    /\ heap.res = "cleared"

\* C3 as stated: a search that returns -1 invoked find, find failed, and no
\* next call and no callback was made.
C3_MinusOneMeansFindFailed ==
    (spc = "done" /\ retval = -1) =>
        /\ findLog = <<-1>>
        /\ nextLog = <<>>
        /\ fetchLog = <<>>
        /\ cbLog = <<>>

\* C3 amended: a search that returns -1 either could not allocate the cursor
\* state (find was not invoked) or invoked find and find failed; in both
\* cases no next call, no row fetch and no callback was made.
C3_MinusOneMeansAllocOrFindFailed ==
    (spc = "done" /\ retval = -1) =>
        /\ \/ stPtr = "NULL" /\ findLog = <<>>
           \/ stPtr # "NULL" /\ findLog = <<-1>>
        /\ nextLog = <<>>
        /\ fetchLog = <<>>
        /\ cbLog = <<>>

C3_Witness ==
    /\ spc = "done"
    /\ retval = -1
    /\ findLog = <<-1>>
    /\ heap.st = "freed"

\* C4: when the find query succeeds with zero rows the search returns 0,
\* makes no row fetch and no callback, and the cursor is destroyed.
C4_EmptyResultReturnsZero ==
    (spc = "done" /\ findLog = <<1>>) =>
        /\ retval = 0
        /\ fetchLog = <<>>
        /\ cbLog = <<>>
        /\ heap.st = "freed"
        /\ heap.frees = 1
        /\ heap.res = "cleared"

C4_Witness ==
    /\ spc = "done"
    /\ findLog = <<1>>
    /\ ntuples = 0
    /\ retval = 0
    /\ nextLog = <<1>>

C6_ExhaustedNextIsInert ==
    /\ [](st.row >= st.count =>
             \A f1, f2 \in {0, -1} :
                LET r1 == db_cursor_next(st, f1)
                    r2 == db_cursor_next(r1.state, f2)
                IN  /\ r1 = [ret |-> 1, state |-> st, called |-> FALSE]
                    /\ r2 = r1)
    /\ [][(spc = "loop" /\ st.row >= st.count) =>
             /\ rc' = 1
             /\ st' = st
             /\ fetchLog' = fetchLog
             /\ heap' = heap
             /\ errmsg_cache' = errmsg_cache]_vars

C6_Witness ==
    /\ spc = "exit"
    /\ rc = 1
    /\ st.count = 2
    /\ st.row = 2
    /\ Len(fetchLog) = 2

\* ------------------------------------------------------- migration claims
VersionRead == Len(mtrace) >= 1 /\ mtrace[1] = Ev("pbs_db_get_schema_version", 0)
Is(maj, min) == db_maj_ver = maj /\ db_min_ver = min
NodesUntouched == svr_totnodes = ndAtEntry.tot /\ nd_modified = ndAtEntry.nd
Calls(op) == {p \in 1..Len(mtrace) : mtrace[p].op = op}

\* C7: with a stored version other than 1.0 and 3.0 svr_migrate_data returns
\* -1, logs that version as not upgradable, and runs no recovery, marks no
\* node and saves nothing.
C7_UnknownVersionRefused ==
    (mpc = "done" /\ VersionRead /\ ~Is(1, 0) /\ ~Is(3, 0)) =>
        /\ mret = -1
        /\ mlog = <<LogEntry("Cannot upgrade from PBS datastore version %d.%d",
                             <<db_maj_ver, db_min_ver>>)>>
        /\ mtrace = <<Ev("pbs_db_get_schema_version", 0)>>
        /\ NodesUntouched

C7_Witness ==
    /\ mpc = "done"
    /\ VersionRead
    /\ Is(2, 7)
    /\ mret = -1
    /\ svr_totnodes >= 1
    /\ Len(mlog) = 1

\* C8: with version 1.0 the recovery runs first, then every node
\* 0..svr_totnodes-1 is marked NODE_UPDATE_OTHERS, then the nodes are saved;
\* the save never follows a failed recovery nor precedes a marking; the
\* result is 0 exactly when recovery and save both succeeded, else -1.
C8_RecoverMarkSaveInOrder ==
    /\ (VersionRead /\ Is(1, 0) /\ mpc \in {"mark", "done"}) =>
          /\ mtrace[2].op = "pbsd_init"
          /\ (mpc = "mark" => mtrace[2].arg = 0)
          /\ \A p \in 3..Len(mtrace) : mtrace[2].arg = 0
    /\ \A p \in Calls("save_nodes_db") :
          /\ p = Len(mtrace)
          /\ p = svr_totnodes + 3
          /\ mtrace[2] = Ev("pbsd_init", 0)
          /\ \A j \in 0..(svr_totnodes - 1) :
                /\ mtrace[j + 3] = Ev("mark", j)
                /\ nd_modified[j] = {"NODE_UPDATE_OTHERS"}
    /\ (mpc = "done" /\ VersionRead /\ Is(1, 0)) =>
          /\ mret \in {0, -1}
          /\ mret = 0 <=> (Ev("pbsd_init", 0) \in {mtrace[p] : p \in 1..Len(mtrace)}
                           /\ Last(mtrace) = Ev("save_nodes_db", 0))

C8_Witness ==
    /\ mpc = "done"
    /\ VersionRead
    /\ Is(1, 0)
    /\ svr_totnodes = 2
    /\ ndAtEntry.tot = 1
    /\ Last(mtrace) = Ev("save_nodes_db", 0)
    /\ mret = 0

\* C9 as stated: in the version 1.0 path a failed recovery and a failed save
\* both make svr_migrate_data return -1 and log a cause.
C9_FailureReturnsMinusOneAndLogs ==
    (mpc = "done" /\ VersionRead /\ Is(1, 0)
       /\ Last(mtrace) \in {Ev("pbsd_init", -1), Ev("save_nodes_db", -1)}) =>
        /\ mret = -1
        /\ Len(mlog) >= 1

\* C10: with version 3.0 svr_migrate_data returns 0 and changes nothing: no
\* recovery, no node marked, no save, no log entry.
C10_CurrentVersionNoAction ==
    (mpc = "done" /\ VersionRead /\ Is(3, 0)) =>
        /\ mret = 0
        /\ mlog = <<>>
        /\ mtrace = <<Ev("pbs_db_get_schema_version", 0)>>
        /\ NodesUntouched

C10_Witness ==
    /\ mpc = "done"
    /\ VersionRead
    /\ Is(3, 0)
    /\ mret = 0
    /\ svr_totnodes >= 1
    /\ mlog = <<>>

\* ------------------------------------------------------- connection claims
AfterConnect == lastConn.op = "connect"
AfterDisconnect == lastConn.op = "disconnect"
FreedOnce(id) == id # 0 => (bufs[id].state = "freed" /\ bufs[id].frees = 1)
LiveBuf(id) == id # 0 /\ bufs[id].state = "live"

\* C11 as stated: on a bad session each of the three phrases alone decides
\* the class, whatever else the diagnostic contains; any other diagnostic
\* and a null session give PBS_DB_CONNFAILED.
C11_EachPhraseDecides ==
    /\ (AfterConnect /\ lastConn.path = "bad session") =>
          LET d == lastConn.in.diag
          IN  /\ strstr(d, "Connection refused")
                    => lastConn.failcode = "PBS_DB_CONNREFUSED"
              /\ strstr(d, "authentication")
                    => lastConn.failcode = "PBS_DB_AUTH_FAILED"
              /\ strstr(d, "database system is starting up")
                    => lastConn.failcode = "PBS_DB_STILL_STARTING"
              /\ (~strstr(d, "Connection refused") /\ ~strstr(d, "authentication")
                  /\ ~strstr(d, "database system is starting up"))
                    => lastConn.failcode = "PBS_DB_CONNFAILED"
    /\ (AfterConnect /\ lastConn.path = "null session") =>
          lastConn.failcode = "PBS_DB_CONNFAILED"

\* C11 amended: on a bad session the first test that matches decides, in the
\* order "Connection refused" or "No such file or directory" (CONNREFUSED),
\* "authentication" (AUTH_FAILED), "database system is starting up"
\* (STILL_STARTING), none of them (CONNFAILED); a null session gives
\* CONNFAILED.
C11_FirstMatchDecides ==
    /\ (AfterConnect /\ lastConn.path = "bad session") =>
          LET d == lastConn.in.diag
              refused == strstr(d, "Connection refused")
                         \/ strstr(d, "No such file or directory")
              auth == strstr(d, "authentication")
              starting == strstr(d, "database system is starting up")
          IN  /\ refused => lastConn.failcode = "PBS_DB_CONNREFUSED"
              /\ (~refused /\ auth) => lastConn.failcode = "PBS_DB_AUTH_FAILED"
              /\ (~refused /\ ~auth /\ starting)
                    => lastConn.failcode = "PBS_DB_STILL_STARTING"
              /\ (~refused /\ ~auth /\ ~starting)
                    => lastConn.failcode = "PBS_DB_CONNFAILED"
    /\ (AfterConnect /\ lastConn.path = "null session") =>
          lastConn.failcode = "PBS_DB_CONNFAILED"

C11_Witness ==
    /\ AfterConnect
    /\ lastConn.path = "bad session"
    /\ lastConn.in.diag = <<"authentication", "Connection refused">>
    /\ lastConn.failcode = "PBS_DB_CONNREFUSED"

\* C12: after every failing pbs_db_connect the failcode is non-zero, the
\* buffers this call allocated are freed exactly once, and the caller's
\* handle is null.
C12_FailureFreesBothAndNullsHandle ==
    (AfterConnect /\ lastConn.path # "ok") =>
        /\ lastConn.failcode # "PBS_DB_SUCCESS"
        /\ FreedOnce(lastConn.data)
        /\ FreedOnce(lastConn.trx)
        /\ handles[lastConn.slot] = 0

\* C13: a pbs_db_connect call issues a stop request exactly when the session
\* is healthy and the statement preparation fails, and then returns
\* PBS_DB_ERR; nothing else issues a stop request.
HealthyPrepareFails(in) ==
    /\ in.m1 /\ in.m2
    /\ in.cs \in CSOk
    /\ in.sess = "OK"
    /\ in.failAt \in 1..Len(PrepareOrder)

C13_StopOnlyOnPrepareFailure ==
    /\ [](AfterConnect /\ HealthyPrepareFails(lastConn.in)
             => lastConn.failcode = "PBS_DB_ERR")
    /\ [][/\ stopReqs' # stopReqs =>
                /\ stopReqs' = stopReqs + 1
                /\ nConnects' = nConnects + 1
                /\ HealthyPrepareFails(lastConn'.in)
          /\ (nConnects' # nConnects /\ HealthyPrepareFails(lastConn'.in))
                => stopReqs' = stopReqs + 1]_vars

C13_Witness ==
    /\ AfterConnect
    /\ lastConn.in.sess = "OK"
    /\ lastConn.in.failAt = 6
    /\ lastConn.failcode = "PBS_DB_ERR"
    /\ stopReqs = 1

\* C14: every buffer that held the secret (password, escaped password,
\* descriptor) and was released by the connect call was zeroed first.
C14_SecretBuffersScrubbed ==
    AfterConnect =>
        \A i \in 1..Len(lastConn.released) :
            lastConn.released[i].secret => lastConn.released[i].zeroed

\* C15: pbs_db_disconnect with a null handle returns -1 and changes nothing;
\* with a non-null handle it finishes that session, frees conn_data and
\* conn_trx, and returns 0.
C15_DisconnectContract ==
    AfterDisconnect =>
        IF lastConn.preHandle = 0
        THEN /\ lastConn.ret = -1
             /\ bufs = lastConn.preBufs
             /\ sessions = lastConn.preSessions
             /\ conn_data = lastConn.preData
             /\ conn_trx = lastConn.preTrx
        ELSE /\ lastConn.ret = 0
             /\ ~sessions[lastConn.preHandle].open
             /\ sessions[lastConn.preHandle].finishes
                   = lastConn.preSessions[lastConn.preHandle].finishes + 1
             /\ \A id \in {lastConn.preData, lastConn.preTrx} \ {0} :
                   /\ bufs[id].state = "freed"
                   /\ bufs[id].frees = lastConn.preBufs[id].frees + 1

C15_Witness ==
    /\ AfterDisconnect
    /\ lastConn.preHandle # 0
    /\ lastConn.ret = 0
    /\ lastConn.preData # 0
    /\ lastConn.preTrx # 0
    /\ bufs[lastConn.preData].frees = 1
    /\ bufs[lastConn.preTrx].frees = 1

\* C16: while some handle is live the buffers conn_data and conn_trx point
\* to are allocated, no live buffer has been lost by overwriting the
\* pointers, and no buffer is ever freed twice.
LiveHandle == \E s \in Slots : handles[s] # 0 /\ sessions[handles[s]].open

C16_LiveHandleOwnsLiveBuffers ==
    /\ \A i \in 1..Len(bufs) : bufs[i].frees <= 1
    /\ LiveHandle =>
          /\ LiveBuf(conn_data)
          /\ LiveBuf(conn_trx)
          /\ \A i \in 1..Len(bufs) :
                bufs[i].state = "live" => i \in {conn_data, conn_trx}

\* ------------------------------------------------------- statement claims
Positive(rows) == ~rows.null /\ \E i \in 1..Len(rows.s) : rows.s[i] # "0"
ReleasedOnce(h) == h.res = "cleared" /\ h.clears = 1

\* C17: db_cmd returns 0 for PGRES_COMMAND_OK with a positive affected-row
\* count, 1 for PGRES_COMMAND_OK with a zero, empty or absent count, and -1
\* for every other status.
C17_CmdThreeWay ==
    stmtCall.fn = "db_cmd" =>
        /\ (stmtCall.status = "PGRES_COMMAND_OK" /\ Positive(stmtCall.rows))
              => stmtCall.rc = 0
        /\ (stmtCall.status = "PGRES_COMMAND_OK" /\ ~Positive(stmtCall.rows))
              => stmtCall.rc = 1
        /\ stmtCall.status # "PGRES_COMMAND_OK" => stmtCall.rc = -1

C17_Witness ==
    /\ stmtCall.fn = "db_cmd"
    /\ stmtCall.status = "PGRES_COMMAND_OK"
    /\ stmtCall.rows = CStr(<<"0">>)
    /\ stmtCall.rc = 1

\* C18: db_query returns 0 exactly for PGRES_TUPLES_OK with at least one
\* row and then leaves the result allocated for the caller; it returns 1
\* for zero rows and -1 for any other status, with the result cleared once.
C18_QueryThreeWay ==
    (stmtCall.fn = "db_query" /\ (stmtCall.owned \/ stmtCall.rc # 0)) =>
        /\ stmtCall.rc = 0 <=> (stmtCall.status = "PGRES_TUPLES_OK" /\ stmtCall.n >= 1)
        /\ stmtCall.rc = 1 <=> (stmtCall.status = "PGRES_TUPLES_OK" /\ stmtCall.n <= 0)
        /\ stmtCall.rc = -1 <=> stmtCall.status # "PGRES_TUPLES_OK"
        /\ stmtCall.rc = 0 => (stmtCall.heap.res = "live" /\ stmtCall.heap.clears = 0)
        /\ stmtCall.rc # 0 => ReleasedOnce(stmtCall.heap)

C18_Witness ==
    /\ stmtCall.fn = "db_query"
    /\ stmtCall.status = "PGRES_TUPLES_OK"
    /\ stmtCall.n = 0
    /\ stmtCall.rc = 1
    /\ ReleasedOnce(stmtCall.heap)

\* C19: db_execute_str returns -1 when the status is neither
\* PGRES_COMMAND_OK nor PGRES_TUPLES_OK; otherwise 0 when the affected-row
\* count or the number of returned rows is positive, and 1 only when both
\* are zero or absent.
C19_ExecuteStrThreeWay ==
    stmtCall.fn = "db_execute_str" =>
        LET accepted == stmtCall.status \in {"PGRES_COMMAND_OK", "PGRES_TUPLES_OK"}
        IN  /\ ~accepted => stmtCall.rc = -1
            /\ (accepted /\ (Positive(stmtCall.rows) \/ stmtCall.n > 0))
                  => stmtCall.rc = 0
            /\ (accepted /\ ~Positive(stmtCall.rows) /\ stmtCall.n <= 0)
                  => stmtCall.rc = 1

C19_Witness ==
    /\ stmtCall.fn = "db_execute_str"
    /\ stmtCall.status = "PGRES_TUPLES_OK"
    /\ ~Positive(stmtCall.rows)
    /\ stmtCall.n >= 1
    /\ stmtCall.rc = 0

\* C20: the result a statement call obtained is cleared exactly once before
\* the call returns, except the one db_query hands over on return 0, which
\* is still allocated and is cleared once by its caller; no result is read
\* after it was cleared.
C20_ResultReleasedOnce ==
    stmtCall.fn # "none" =>
        /\ stmtCall.heap.stale = 0
        /\ stmtCall.heap.clears <= 1
        /\ stmtCall.owned =>
              (stmtCall.fn = "db_query" /\ stmtCall.rc = 0
               /\ stmtCall.heap.res = "live" /\ stmtCall.heap.clears = 0)
        /\ ~stmtCall.owned => ReleasedOnce(stmtCall.heap)

C20_Witness ==
    /\ stmtCall.fn = "db_cmd"
    /\ stmtCall.rc = 0
    /\ ReleasedOnce(stmtCall.heap)
    /\ stmtCall.heap.stale = 0

\* ------------------------------------------------------- error cache claims
AfterStmt == stmtCall.fn # "none"
Context(fn) ==
    CASE fn = "db_prepare_stmt" -> "Prepare of statement"
      [] fn \in {"db_cmd", "db_query"} -> "Execution of Prepared statement"
      [] fn = "db_execute_str" -> "Execution of string statement\n"
IsLineEnd(c) == c \in {"\r", "\n"}
\* body is s without its trailing line ends
TrimmedOf(body, s) ==
    /\ Len(body) <= Len(s)
    /\ body = SubSeq(s, 1, Len(body))
    /\ \A i \in (Len(body) + 1)..Len(s) : IsLineEnd(s[i])
    /\ Len(body) > 0 => ~IsLineEnd(body[Len(body)])
\* t is "<context> <statement> failed: <backend message> <sqlstate>" of call c
BuiltFor(c, t) ==
    \E k \in 0..Len(c.pq.msg.s) :
        LET body == SubSeq(c.pq.msg.s, 1, k)
        IN  /\ TrimmedOf(body, c.pq.msg.s)
            /\ t = <<Context(c.fn)>> \o c.stmt.s \o <<"failed:">> \o body
                   \o (IF c.pq.sqlstate.null THEN <<>> ELSE c.pq.sqlstate.s)

\* C21: after a statement-level call (db_prepare_stmt, db_cmd, db_query,
\* db_execute_str) returned -1 the cached error holds the message built for
\* that failure (context, statement, "failed:", the backend message without
\* its trailing line ends, the SQLSTATE), whatever was cached before; after
\* a call that did not fail the cached error is what it was before the call.
C21_FailureCachesMessage ==
    AfterStmt =>
        /\ stmtCall.rc = -1 =>
              /\ ~errmsg_cache.null
              /\ BuiltFor(stmtCall, errmsg_cache.s)
        /\ stmtCall.rc # -1 => errmsg_cache = stmtCall.cachePre

\* a failing call replaced an older message by one whose backend text lost
\* its trailing line ends
C21_Witness ==
    /\ AfterStmt
    /\ stmtCall.rc = -1
    /\ ~stmtCall.cachePre.null
    /\ ~errmsg_cache.null
    /\ errmsg_cache # stmtCall.cachePre
    /\ Len(stmtCall.pq.msg.s) > 0
    /\ IsLineEnd(Last(stmtCall.pq.msg.s))
    /\ ~IsLineEnd(Last(errmsg_cache.s))
    /\ stmtCall.pq.sqlstate.null

\* ------------------------------------------------------- credential claims
IsSpecial(c) == c = "'" \/ c = "\\"
\* where character i of the secret lands in the escaped string
EscPos(src, i) == i + Cardinality({j \in 1..i : IsSpecial(src[j])})
\* reading an escaped string back: a backslash stands for the character
\* that follows it
RECURSIVE Unescape(_)
Unescape(d) ==
    IF Len(d) = 0 THEN <<>>
    ELSE IF d[1] = "\\" /\ Len(d) >= 2
    THEN <<d[2]>> \o Unescape(SubSeq(d, 3, Len(d)))
    ELSE <<d[1]>> \o Unescape(SubSeq(d, 2, Len(d)))

\* C22: escape_passwd with len >= 2 * strlen(src) + 1 leaves in dest every
\* character of the secret in order, each single quote and each backslash
\* preceded by exactly one added backslash and nothing else added, so that
\* reading the escapes back gives the secret.
C22_EscapeRoundTrip ==
    (escCall.called /\ escCall.len >= 2 * Len(escCall.src) + 1) =>
        LET src == escCall.src
            d == escCall.out.s
        IN  /\ Len(d) = EscPos(src, Len(src))
            /\ \A i \in 1..Len(src) :
                  /\ d[EscPos(src, i)] = src[i]
                  /\ IsSpecial(src[i]) => d[EscPos(src, i) - 1] = "\\"
            /\ Unescape(d) = src

C22_Witness ==
    /\ escCall.called
    /\ escCall.src = <<"\\", "a", "'">>
    /\ escCall.len = 7
    /\ Len(escCall.out.s) = 5

HostaddrFields(desc) == {i \in 1..Len(desc) : desc[i].key = "hostaddr"}
\* text is the dotted-decimal spelling of the host-order address addr
IsDottedQuadOf(text, addr) ==
    /\ Len(text) = 7
    /\ \A i \in {2, 4, 6} : text[i] = "."
    /\ \A i \in {1, 3, 5, 7} : text[i] \in 0..255
    /\ ((text[1] * 256 + text[3]) * 256 + text[5]) * 256 + text[7] = addr
CSNoOtherFailure(in) == in.usrOk /\ in.pwdOk /\ in.mallocQuoted /\ in.mallocInfo

\* C23: get_db_connect_string with a null host builds a descriptor without a
\* hostaddr field; with a host that resolves it builds a descriptor with one
\* hostaddr field, whose value is the dotted-decimal IPv4 address the host
\* resolved to.
C23_HostaddrNumericOrAbsent ==
    (csCall.called /\ CSNoOtherFailure(csCall.in)) =>
        /\ csCall.in.host = "NULL" =>
              /\ csCall.out.info # "NULL"
              /\ HostaddrFields(csCall.out.desc) = {}
        /\ (csCall.in.host # "NULL" /\ csCall.in.resolves /\ csCall.in.ntoaOk) =>
              /\ csCall.out.info # "NULL"
              /\ HostaddrFields(csCall.out.desc) = {1}
              /\ IsDottedQuadOf(csCall.out.desc[1].val, csCall.in.addr)

C23_Witness ==
    /\ csCall.called
    /\ csCall.in.host = "dbhost"
    /\ csCall.in.addr = 2130706433
    /\ csCall.out.info # "NULL"
    /\ csCall.out.desc[1] = KV("hostaddr", <<127, ".", 0, ".", 0, ".", 1>>)

\* the failure kind each connect failure code stands for
FailureKind(code) ==
    CASE code = "PBS_DB_AUTH_FAILED" -> "AuthFailed"
      [] code = "PBS_DB_NOMEM" -> "OutOfMemory"
      [] code = "PBS_DB_CONNREFUSED" -> "ConnectionRefused"
      [] code = "PBS_DB_STILL_STARTING" -> "StillStarting"
      [] code = "PBS_DB_CONNFAILED" -> "ConnectionFailed"
      [] code = "PBS_DB_ERR" -> "InternalError"
      [] OTHER -> "none"

\* C24 as stated: a given host that does not resolve makes
\* get_db_connect_string return no descriptor with the failure kind
\* HostResolutionFailed; a failed account or secret lookup gives AuthFailed
\* and a failed allocation OutOfMemory.
C24_FailureTaxonomy ==
    csCall.called =>
        /\ (CSNoOtherFailure(csCall.in) /\ csCall.in.host # "NULL"
              /\ ~csCall.in.resolves) =>
              /\ csCall.out.info = "NULL"
              /\ FailureKind(csCall.out.err_code) = "HostResolutionFailed"
        /\ (~csCall.in.usrOk \/ ~csCall.in.pwdOk) =>
              /\ csCall.out.info = "NULL"
              /\ FailureKind(csCall.out.err_code) = "AuthFailed"
        /\ (csCall.in.usrOk /\ csCall.in.pwdOk
              /\ (~csCall.in.mallocQuoted \/ ~csCall.in.mallocInfo)) =>
              /\ csCall.out.info = "NULL"
              /\ FailureKind(csCall.out.err_code) = "OutOfMemory"

\* C25 as stated: without a secret file get_dataservice_password returns the
\* account name; with a secret file that cannot be opened or examined, is
\* read short or is too large for the buffer it returns NULL.
C25_SecretRetrieval ==
    pwdCall.called =>
        /\ pwdCall.file.open = "ENOENT" => pwdCall.out.secret = CStr(pwdCall.user)
        /\ (\/ pwdCall.file.open = "EACCES"
            \/ /\ pwdCall.file.open = "OK"
               /\ \/ ~pwdCall.file.fstatOk
                  \/ pwdCall.file.st_size > MaxPath
                  \/ pwdCall.file.nread # pwdCall.file.st_size) =>
              pwdCall.out.secret.null

\* ------------------------------------------------------- dispatch claims
OpField(k, op) ==
    CASE op = "save" -> db_fn_arr[k].pbs_db_save_obj
      [] op = "delete" -> db_fn_arr[k].pbs_db_delete_obj
      [] op = "load" -> db_fn_arr[k].pbs_db_load_obj
      [] op = "find" -> db_fn_arr[k].pbs_db_find_obj
      [] op = "next" -> db_fn_arr[k].pbs_db_next_obj
NoCursorKinds == {"PBS_DB_SVR", "PBS_DB_MOMINFO_TIME", "PBS_DB_JOBSCR"}
\* the entries that are operations of some entity module
RealOps ==
    {OpField(k, op) : k \in ObjTypes \ NoCursorKinds,
                      op \in {"save", "delete", "load", "find", "next"}}
    \cup {OpField(k, op) : k \in NoCursorKinds, op \in {"save", "load"}}

AfterDispatch == dispCall.op # "none"

\* C26 as stated: db_fn_arr has one row for each of the eight kinds, and the
\* row a generic entry point indexes has save and load defined; when it is
\* the row of PBS_DB_SVR, PBS_DB_MOMINFO_TIME or PBS_DB_JOBSCR its delete,
\* find and next entries are no operations, and they are markers other than
\* a null function pointer.
C26_UnsupportedOpsMarked ==
    AfterDispatch =>
        LET k == dispCall.obj.pbs_db_obj_type
        IN  /\ DOMAIN db_fn_arr = ObjTypes
            /\ Cardinality(ObjTypes) = 8
            /\ OpField(k, "save") # "NULL"
            /\ OpField(k, "load") # "NULL"
            /\ k \in NoCursorKinds =>
                  \A op \in {"delete", "find", "next"} :
                      /\ OpField(k, op) \notin RealOps
                      /\ OpField(k, op) # "NULL"

Supported(k, op) == OpField(k, op) # "NULL"

\* C27: a call of pbs_db_save_obj, pbs_db_delete_obj or pbs_db_load_obj for
\* a kind that has the operation invokes that operation of the kind's row
\* exactly once, on the caller's object, invokes nothing else, and returns
\* what the operation returned: -1, 0 or 1.
C27_DispatchInvokesRowOnce ==
    (AfterDispatch /\ Supported(dispCall.obj.pbs_db_obj_type, dispCall.op)) =>
        /\ ~dispCall.crashed
        /\ Len(dispCall.invoked) = 1
        /\ {k \in ObjTypes : OpField(k, dispCall.op) = dispCall.invoked[1].fn}
              = {dispCall.obj.pbs_db_obj_type}
        /\ dispCall.invoked[1].args[1] = dispCall.obj
        /\ dispCall.ret = dispCall.result
        /\ dispCall.ret \in {-1, 0, 1}

C27_Witness ==
    /\ dispCall.op = "load"
    /\ dispCall.obj.pbs_db_obj_type = "PBS_DB_JOBSCR"
    /\ dispCall.invoked = <<[fn |-> "pbs_db_load_jobscr", args |-> <<dispCall.obj>>]>>
    /\ dispCall.ret = 1

\* ------------------------------------------------------- search failure claims
FindFailed == Len(findLog) > 0 /\ Last(findLog) = -1
FetchFailed == Len(fetchLog) > 0 /\ Last(fetchLog).ret = -1

\* C28 as stated: a search in which the cursor allocation, the find or a row
\* fetch failed returns -1; a failing row fetch is the last row fetch and
\* the last next call of the search, and no callback follows it.
C28_FailedFetchFailsSearch ==
    /\ \A i \in 1..(Len(fetchLog) - 1) : fetchLog[i].ret = 0
    /\ FetchFailed =>
          /\ Last(nextLog) = -1
          /\ Len(nextLog) = Len(fetchLog)
          /\ Len(cbLog) = Len(fetchLog) - 1
          /\ spc \notin {"loop", "cb"}
    /\ (spc = "done" /\ (stPtr = "NULL" \/ FindFailed \/ FetchFailed)) => retval = -1

\* the searches that have a cursor: between the allocation and the return
CursorLive == spc \in {"find", "check", "loop", "cb", "exit", "done"}

\* C29: while a cursor lives its row index never decreases; a next call that
\* invokes the row fetch moves the index from the fetched row to the next
\* one, whether the fetch returns 0 or -1, and a next call that does not
\* leaves it alone; the rows fetched are 0, 1, 2, ... in order, so there are
\* never more row fetches than rows from the first index to count - 1.
C29_IndexAdvancesByOne ==
    /\ [][(CursorLive /\ CursorLive') => st'.row >= st.row]_vars
    /\ [][Len(nextLog') = Len(nextLog) + 1 =>
             IF Len(fetchLog') = Len(fetchLog) + 1
             THEN /\ Last(fetchLog').row = st.row
                  /\ Last(fetchLog').ret \in {0, -1}
                  /\ st'.row = st.row + 1
             ELSE /\ fetchLog' = fetchLog
                  /\ st'.row = st.row]_vars
    /\ [](CursorLive =>
             /\ \A i \in 1..Len(fetchLog) : fetchLog[i].row = i - 1
             /\ Len(fetchLog) <= (IF st.count > 0 THEN st.count ELSE 0)
             /\ Len(fetchLog) > 0 => st.row = Len(fetchLog))

C29_Witness ==
    /\ spc = "exit"
    /\ st.count = 3
    /\ Len(fetchLog) = 2
    /\ fetchLog[2] = [row |-> 1, ret |-> -1]
    /\ st.row = 2

\* ------------------------------------------------------- version read claims
VersionReadFailed ==
    Len(mtrace) >= 1 /\ mtrace[1] = Ev("pbs_db_get_schema_version", -1)

\* C30: when pbs_db_get_schema_version fails svr_migrate_data returns -1 and
\* logs "Failed to get PBS datastore version" (and the cached backend error
\* when there is one); it calls nothing else, marks no node, saves nothing,
\* and neither its result nor its log depends on the two version variables.
C30_VersionReadFailureStops ==
    (mpc = "done" /\ VersionReadFailed) =>
        /\ mret = -1
        /\ Len(mlog) \in {1, 2}
        /\ mlog[1] = LogEntry("Failed to get PBS datastore version", <<>>)
        /\ \A i \in 1..Len(mlog) : mlog[i].args = <<>>
        /\ mtrace = <<Ev("pbs_db_get_schema_version", -1)>>
        /\ NodesUntouched

C30_Witness ==
    /\ mpc = "done"
    /\ VersionReadFailed
    /\ Is(1, 0)
    /\ svr_totnodes >= 1
    /\ mret = -1
    /\ Len(mlog) = 2

\* ------------------------------------------------------- buffer bound claims
\* C31: for every source string and every len, escape_passwd writes only
\* within the first len bytes of dest, the terminating zero included
C31_WritesWithinLen ==
    escCall.called => escCall.out.written <= escCall.len

\* C32: the buffer get_db_connect_string allocates for the descriptor is at
\* least as long as the formatted descriptor written into it plus its
\* terminator, for every account, secret, host, port and timeout
C32_DescriptorFitsBuffer ==
    (csCall.called /\ csCall.out.info = "INFO")
        => sprintf_bytes(IF csCall.out.template = "template1" THEN template1
                         ELSE template2, csCall.out.desc) <= csCall.size

\* ------------------------------------------------------- connect result claims
\* the session object the last connect opened, if it opened one
SessionOpened == lastConn.sess # 0
ConnectSucceeded == lastConn.failcode = "PBS_DB_SUCCESS"
HealthyAndPrepared ==
    /\ SessionOpened
    /\ sessions[lastConn.sess].status = "OK"
    /\ lastConn.in.failAt = 0

\* C33: pbs_db_connect returns success exactly when the session was opened
\* healthy and every statement set was prepared, and a failure after a
\* session object was opened leaves that object closed and the handle null
C33_ConnectResultAndSessionClosed ==
    AfterConnect =>
        /\ ConnectSucceeded <=> HealthyAndPrepared
        /\ (~ConnectSucceeded /\ SessionOpened) =>
               /\ ~sessions[lastConn.sess].open
               /\ handles[lastConn.slot] = 0

\* --------------------------------------------------- signal request claims
\* the requests a client without operator or manager privilege sends for a
\* suspend or a resume
Unprivileged(preq) ==
    /\ IsSuspend(preq.rq_signame) \/ IsResume(preq.rq_signame)
    /\ preq.rq_perm \cap (MgrPerm \ UserPerm) = {}

\* the step is a call of req_signaljob
RequestStep == nReqs' = nReqs + 1
\* the signal and the origin the step recorded are those of preq
Recorded(preq) ==
    /\ lastSig'.rq_signame = preq.rq_signame
    /\ lastSig'.rq_fromsvr = preq.rq_fromsvr
\* the step is req_signaljob serving preq with the answers in
ServesRequest(preq, in) ==
    /\ RequestStep
    /\ req_signaljob(preq, in.chkOk, in.rangeOk, in.assign_rc, in.relay)

Relayable(preq, pjob) ==
    /\ pjob.ji_state = "JOB_STATE_RUNNING"
    /\ pjob.ji_substate # "JOB_SUBSTATE_PROVISION"
    /\ preq.rq_signame = SIG_ADMIN_RESUME => pjob.AdmSuspd
    /\ preq.rq_signame = SIG_RESUME => ~pjob.AdmSuspd
    /\ IsResume(preq.rq_signame) => pjob.Suspend

\* preq is a request for a regular job that passes the permission check
ForSignaljob2(preq) ==
    /\ preq.jt = "IS_ARRAY_NO"
    /\ ~Unprivileged(preq)
    /\ Recorded(preq)

\* the step is req_signaljob handing preq to req_signaljob2
ReachesSignaljob2(preq, in) ==
    /\ in.chkOk
    /\ ServesRequest(preq, in)

\* C35: req_signaljob2 relays a signal only for a job in state RUNNING and
\* not in substate PROVISION, an admin-resume only with the admin-suspend
\* flag, a plain resume only without it, any resume only with the Suspend
\* flag; in every other case the request is rejected with PBSE_BADSTATE or
\* PBSE_WRONG_RESUME, nothing is relayed and the job is unchanged.
C35_RelayOnlyWhenAllowed ==
    [][RequestStep =>
          \A preq \in Preqs :
             ForSignaljob2(preq)
                => \A in \in ReqInputs(preq) :
                      ReachesSignaljob2(preq, in)
                         => /\ lastSig'.relayed => Relayable(preq, jobs[preq.jid])
                            /\ atMom' # atMom => Relayable(preq, jobs[preq.jid])
                            /\ ~Relayable(preq, jobs[preq.jid])
                                  => /\ lastSig'.reply \in {"PBSE_BADSTATE",
                                                            "PBSE_WRONG_RESUME"}
                                     /\ ~lastSig'.relayed
                                     /\ UNCHANGED <<jobs, pbsnodes, atMom, brs>>]_vars

C35_Witness ==
    /\ lastSig.op = "req"
    /\ lastSig.reply = "PBSE_WRONG_RESUME"
    /\ jobs[1] = AdmSuspendedJob

\* preq is a plain resume that does not come from the server, for a
\* regular job whose Suspend flag is set
PlainResumeOfSuspended(preq) ==
    /\ preq.rq_signame = SIG_RESUME
    /\ preq.rq_fromsvr = 0
    /\ ForSignaljob2(preq)
    /\ jobs[preq.jid].Suspend

\* the resume is left to the scheduler: nothing goes to MOM, the substate
\* becomes SCHSUSP, the scheduler is flagged, the request is acknowledged,
\* the Suspend flag stays and no resources are assigned
LeftToScheduler(j) ==
    /\ ~lastSig'.relayed
    /\ atMom' = atMom
    /\ jobs'[j].ji_state = "JOB_STATE_RUNNING"
    /\ jobs'[j].ji_substate = "JOB_SUBSTATE_SCHSUSP"
    /\ lastSig'.sched
    /\ lastSig'.reply = "ack"
    /\ jobs'[j].Suspend
    /\ jobs'[j].resc = jobs[j].resc

\* C36 as stated: a plain resume of a suspended job that does not come from
\* the server is not relayed; the substate becomes scheduler-suspended, the
\* scheduler is flagged, the request is acknowledged at once, the Suspend
\* flag stays set and no resources are assigned.
C36_PlainResumeLeftToScheduler ==
    [][RequestStep =>
          \A preq \in Preqs :
             PlainResumeOfSuspended(preq)
                => \A in \in ReqInputs(preq) :
                      ReachesSignaljob2(preq, in) => LeftToScheduler(preq.jid)]_vars

\* C36, amended: the above holds for a suspended job without the
\* admin-suspend flag; for a job with the flag the plain resume is rejected
\* with PBSE_WRONG_RESUME, nothing is relayed and the job is unchanged.
C36_PlainResumeLeftToSchedulerUnlessAdmin ==
    [][RequestStep =>
          \A preq \in Preqs :
             PlainResumeOfSuspended(preq)
                => \A in \in ReqInputs(preq) :
                      ReachesSignaljob2(preq, in)
                         => IF jobs[preq.jid].AdmSuspd
                            THEN /\ lastSig'.reply = "PBSE_WRONG_RESUME"
                                 /\ ~lastSig'.relayed
                                 /\ UNCHANGED <<jobs, pbsnodes, atMom, brs>>
                            ELSE LeftToScheduler(preq.jid)]_vars

C36_Witness ==
    /\ lastSig.op = "req"
    /\ lastSig.rq_signame = SIG_RESUME
    /\ lastSig.rq_fromsvr = 0
    /\ lastSig.reply = "ack"
    /\ lastSig.sched
    /\ jobs[1].ji_substate = "JOB_SUBSTATE_SCHSUSP"
    /\ jobs[1].Suspend

\* no signal request for job j is waiting for MOM's answer
NoneOutstanding(j) == \A m \in BagToSet(atMom) : m.jid # j

\* C37: whenever no signal request for a running job is outstanding at
\* MOM, the job's resources are assigned exactly once if its Suspend flag
\* is clear and not at all if the flag is set.
C37_ResourcesFollowSuspendFlag ==
    \A j \in JobIds :
        (jobs[j].ji_state = "JOB_STATE_RUNNING" /\ NoneOutstanding(j))
            => jobs[j].resc = IF jobs[j].Suspend THEN 0 ELSE 1

\* the step is post_signal_req completing a request MOM answered
CompletesRequest ==
    /\ lastSig'.op = "post"
    /\ nReqs' = nReqs
    /\ atMom' # atMom

\* C38: MOM's acknowledgement of a suspend for a running job with the
\* Suspend flag clear sets the flag, releases the resources once and makes
\* the substate SCHSUSP for a request of the server and SUSPEND otherwise;
\* for a job already suspended it changes nothing. Its acknowledgement of a
\* resume for a running job clears the flag and makes the substate RUNNING.
\* On an error of MOM state and flags stay and the request is rejected.
C38_PostSignalEffects ==
    [][CompletesRequest =>
          LET j == lastSig'.jid
              sig == lastSig'.rq_signame
              ack == lastSig'.reply = "ack"
              running == jobs[j].ji_state = "JOB_STATE_RUNNING"
          IN  /\ (ack /\ IsSuspend(sig) /\ running /\ ~jobs[j].Suspend)
                    => /\ jobs'[j].Suspend
                       /\ jobs'[j].resc = jobs[j].resc - 1
                       /\ jobs'[j].ji_state = "JOB_STATE_RUNNING"
                       /\ jobs'[j].ji_substate =
                              IF lastSig'.rq_fromsvr = 1 THEN "JOB_SUBSTATE_SCHSUSP"
                              ELSE "JOB_SUBSTATE_SUSPEND"
              /\ (ack /\ IsSuspend(sig) /\ jobs[j].Suspend)
                    => UNCHANGED <<jobs, pbsnodes>>
              /\ (ack /\ IsResume(sig) /\ running)
                    => /\ ~jobs'[j].Suspend
                       /\ jobs'[j].ji_state = "JOB_STATE_RUNNING"
                       /\ jobs'[j].ji_substate = "JOB_SUBSTATE_RUNNING"
              /\ ~ack
                    => /\ lastSig'.reply \in (MomCodes \ {"OK", "PBSE_UNKJOBID"})
                                              \cup {"PBSE_INTERNAL"}
                       /\ jobs'[j].ji_state = jobs[j].ji_state
                       /\ jobs'[j].ji_substate = jobs[j].ji_substate
                       /\ jobs'[j].Suspend = jobs[j].Suspend
                       /\ jobs'[j].AdmSuspd = jobs[j].AdmSuspd
                       /\ UNCHANGED pbsnodes]_vars

C38_Witness ==
    /\ lastSig.op = "post"
    /\ lastSig.rq_signame = SIG_SUSPEND
    /\ lastSig.rq_fromsvr = 1
    /\ lastSig.reply = "ack"
    /\ jobs[1].Suspend
    /\ jobs[1].resc = 0
    /\ jobs[1].ji_substate = "JOB_SUBSTATE_SCHSUSP"

\* C39: a job with the admin-suspend flag also has the Suspend flag, and a
\* vnode is in maintenance exactly when its list of maintenance jobs is not
\* empty.
C39_AdminSuspendConsistent ==
    /\ \A j \in JobIds : jobs[j].AdmSuspd => jobs[j].Suspend
    /\ \A n \in VnodeIds :
          pbsnodes[n].maintenance <=> pbsnodes[n].MaintJobs # <<>>

\* the number of requests made for subjobs of the array or range request b
\* that MOM has not answered yet
OutstandingFor(b) ==
    LET S == {m \in BagToSet(atMom) : m.rq_parentbr = b}
    IN  BagCardinality([m \in S |-> CopiesIn(m, atMom)])

\* C40: an array or range request is replied to exactly once: by
\* req_signaljob when no subjob request is outstanding after issuing, and
\* otherwise when the last outstanding subjob request completes; never
\* twice, and never left without a reply once nothing is outstanding.
C40_ExactlyOneReply ==
    \A b \in 1..Len(brs) :
        /\ brs[b].replies <= 1
        /\ brs[b].rq_refct = OutstandingFor(b)
        /\ brs[b].replies = 1 <=> OutstandingFor(b) = 0

C40_Witness ==
    /\ Len(brs) = 1
    /\ brs[1].replies = 1
    /\ brs[1].rq_refct = 0
    /\ lastSig.op = "post"
    /\ atMom = EmptyBag

====
